---------------------------- MODULE Spec2Model ----------------------------
(***************************************************************************)
(* A model of the Genesys Cloud Terraform resources of this repository:    *)
(* integration actions, integration credentials, the generic identity      *)
(* provider, phones and OAuth clients (create / read / update / delete),   *)
(* and their exporters.                                                    *)
(*                                                                         *)
(* One resource of one entity type ("kind") is operated on per behaviour.  *)
(* The vendor API is the environment: it answers every call, lags behind   *)
(* its own mutations and may fail any call.  Every call an operation makes *)
(* is appended to the history variable "calls" together with the answer.   *)
(***************************************************************************)
EXTENDS Integers, Sequences, FiniteSets, TLC

(***************************************************************************)
(* Bounds of the model.                                                    *)
(***************************************************************************)
\* Seconds between two attempts of a polling loop.
PollInterval == 10
\* Operations the orchestrator invokes on the resource in one behaviour.
MaxOps == 2
\* Versions an integration action can reach through out-of-band writes.
MaxVersion == 2

(***************************************************************************)
(* Program constants: the deadlines handed to the retry helpers.           *)
(***************************************************************************)
ReadTimeout == 30
DeleteTimeout == 30
StationTimeout == 15

Kinds == {"action", "credential", "idp", "phone", "oauth"}
\* Entity types whose server keeps a deleted entity readable in state "deleted".
SoftDeleteKinds == {"phone", "oauth"}

\* Identifiers the server hands out on create.
ServerIds == {"id1", "id2"}
\* Messages of a server fault.
FaultMsgs == {"fault_a", "fault_b"}

\* A Go pointer: <<>> is nil, <<x>> points to x.
None == <<>>
Some(x) == <<x>>
IsNil(p) == p = <<>>
Deref(p) == p[1]

(***************************************************************************)
(* API responses.  status is the HTTP status class the code tells apart,   *)
(* msg the server's message, ent what a successful call returns.           *)
(***************************************************************************)
NoEnt == [id |-> "", state |-> "", version |-> 0, body |-> None]
Resp(status, msg, ent) == [status |-> status, msg |-> msg, ent |-> ent]
RespOk(ent) == Resp("200", "", ent)
Resp404 == Resp("404", "not found", NoEnt)
Resp409 == Resp("409", "version mismatch", NoEnt)
RespFaults == {Resp("500", m, NoEnt) : m \in FaultMsgs}

\* The SDK returns a non-nil error for every answer that is not a success.
IsErr(resp) == resp.status # "200"

isStatus404(resp) == resp.status = "404"

isVersionMismatch(resp) == resp.status = "409"

(***************************************************************************)
(* What a retried closure returns: nil, resource.RetryableError(err) or    *)
(* resource.NonRetryableError(err).  cause is the server message the       *)
(* formatted error text holds ("" when the text holds none).               *)
(***************************************************************************)
RetryNil == [t |-> "nil", cause |-> ""]
RetryableError(cause) == [t |-> "retryable", cause |-> cause]
NonRetryableError(cause) == [t |-> "nonretryable", cause |-> cause]

(***************************************************************************)
(* diag.Diagnostics of an operation.                                       *)
(***************************************************************************)
NoResult == [status |-> "none", msg |-> ""]
Ok == [status |-> "ok", msg |-> ""]
Failed(msg) == [status |-> "failed", msg |-> msg]
RetryExhausted(msg) == [status |-> "retry_exhausted", msg |-> msg]
\* The error of a cancelled context.
Cancelled == [status |-> "cancelled", msg |-> "context canceled"]


(***************************************************************************)
(* The declared configuration of a resource and, after a read, its state.  *)
(* Maps are sets of <<key, value>> pairs; a list block of at most one      *)
(* element is a sequence of length 0 or 1.  Only the integration action    *)
(* uses the fields past "state".                                           *)
(***************************************************************************)
RequestTypes == {"GET", "POST"}
HeaderMaps == {{}, {<<"Accept", "json">>}}
TranslationMaps == {{}, {<<"k", "$.path">>}}
\* JSON texts of a contract: two spellings of one schema, another schema and
\* a malformed text.
ContractTexts == {"{}", "{ }", "true", "{"}

ConfigRequests ==
    [request_url_template : {"/url"}, request_type : RequestTypes,
     request_template : {""}, headers : HeaderMaps]
ConfigResponses ==
    [translation_map : TranslationMaps, translation_map_defaults : {{}},
     success_template : {""}]

Attrs(names, cats, secures, contracts, reqs, resps) ==
    [name : names, state : {"active"}, category : cats,
     integration_id : {"integ"}, secure : secures,
     contract_input : contracts, contract_output : {"{}"},
     config_request : {<<r>> : r \in reqs},
     config_response : {<<>>} \cup {<<r>> : r \in resps}]

\* The configurations a create of an integration action is checked with.
ActionConfigs ==
    Attrs({"n1", "n2"}, {"cat"}, BOOLEAN, ContractTexts, ConfigRequests,
          ConfigResponses)

DefaultRequest ==
    [request_url_template |-> "/url", request_type |-> "GET",
     request_template |-> "", headers |-> {}]
DefaultAttrs ==
    [name |-> "n1", state |-> "active", category |-> "cat",
     integration_id |-> "integ", secure |-> FALSE,
     contract_input |-> "{}", contract_output |-> "{}",
     config_request |-> <<DefaultRequest>>, config_response |-> <<>>]

(***************************************************************************)
(* Integration action: configuration to wire request.                      *)
(***************************************************************************)
\* json.Unmarshal of a contract text: both spellings give the same value.
jsonStringToInterface(text) ==
    IF text \in {"{}", "{ }"}
    THEN [err |-> FALSE, val |-> "object"]
    ELSE IF text = "true"
    THEN [err |-> FALSE, val |-> "true"]
    ELSE [err |-> TRUE, val |-> ""]

buildSdkActionContract(a) ==
    LET inputVal == jsonStringToInterface(a.contract_input)
        outputVal == jsonStringToInterface(a.contract_output)
    IN IF inputVal.err \/ outputVal.err
       THEN [err |-> TRUE, contract |-> None]
       ELSE [err |-> FALSE,
             contract |-> Some([Input |-> Some(inputVal.val),
                                Output |-> Some(outputVal.val)])]

EmptyRequestconfig ==
    [RequestUrlTemplate |-> None, RequestTemplate |-> None,
     RequestType |-> None, Headers |-> None]

buildSdkActionConfigRequest(a) ==
    IF Len(a.config_request) > 0
    THEN LET configMap == a.config_request[1]
         IN [RequestUrlTemplate |-> Some(configMap.request_url_template),
             RequestTemplate |-> Some(configMap.request_template),
             RequestType |-> Some(configMap.request_type),
             Headers |-> Some(configMap.headers)]
    ELSE EmptyRequestconfig

EmptyResponseconfig ==
    [TranslationMap |-> None, TranslationMapDefaults |-> None,
     SuccessTemplate |-> None]

buildSdkActionConfigResponse(a) ==
    IF Len(a.config_response) > 0
    THEN LET configMap == a.config_response[1]
         IN [TranslationMap |-> Some(configMap.translation_map),
             TranslationMapDefaults |-> Some(configMap.translation_map_defaults),
             SuccessTemplate |-> Some(configMap.success_template)]
    ELSE EmptyResponseconfig

buildSdkActionConfig(a) ==
    [Request |-> Some(buildSdkActionConfigRequest(a)),
     Response |-> Some(buildSdkActionConfigResponse(a))]

(***************************************************************************)
(* Integration action: wire response to state.  A key the flattened map    *)
(* lacks reads back as the attribute's zero value.                         *)
(***************************************************************************)
OrZero(p, zero) == IF IsNil(p) THEN zero ELSE Deref(p)

\* json.Marshal of a contract schema: the compact spelling.
flattenActionContract(val) ==
    IF val = "object" THEN "{}" ELSE IF val = "true" THEN "true" ELSE ""

\* A faulty flattening that leaves the request type out of the map.
flattenActionConfigRequest_noType(sdkRequest) ==
    <<[request_url_template |-> OrZero(sdkRequest.RequestUrlTemplate, ""),
       request_type |-> "",
       request_template |-> OrZero(sdkRequest.RequestTemplate, ""),
       headers |-> OrZero(sdkRequest.Headers, {})]>>

flattenActionConfigRequest(sdkRequest) ==
    <<[request_url_template |-> OrZero(sdkRequest.RequestUrlTemplate, ""),
       request_type |-> OrZero(sdkRequest.RequestType, ""),
       request_template |-> OrZero(sdkRequest.RequestTemplate, ""),
       headers |-> OrZero(sdkRequest.Headers, {})]>>

flattenActionConfigResponse(sdkResponse) ==
    <<[translation_map |-> OrZero(sdkResponse.TranslationMap, {}),
       translation_map_defaults |-> OrZero(sdkResponse.TranslationMapDefaults, {}),
       success_template |-> OrZero(sdkResponse.SuccessTemplate, "")]>>

(***************************************************************************)
(* Wire bodies.  An integration action travels as IntegrationAction; the   *)
(* other entity types are modelled by their name and lifecycle state.      *)
(* Contract.Input.InputSchema and Contract.Output.SuccessSchema are one    *)
(* pointer each here.                                                      *)
(***************************************************************************)
IntegrationAction(a, contract) ==
    [Name |-> Some(a.name), Category |-> Some(a.category),
     IntegrationId |-> Some(a.integration_id), Secure |-> Some(a.secure),
     Contract |-> contract, Config |-> Some(buildSdkActionConfig(a))]

\* A faulty request that leaves the version out.
Updateactioninput_noVersion(a, version) ==
    [Name |-> Some(a.name), Category |-> Some(a.category),
     Version |-> None, Config |-> Some(buildSdkActionConfig(a))]

Updateactioninput(a, version) ==
    [Name |-> Some(a.name), Category |-> Some(a.category),
     Version |-> version, Config |-> Some(buildSdkActionConfig(a))]

\* Credential, Genericsaml and the Phone of createPhone.
EntityBody(a) == [Name |-> Some(a.name), State |-> Some(a.state)]

\* The request of createOAuthClient and updateOAuthClient.
Oauthclientrequest(a, roles) ==
    [Name |-> Some(a.name), State |-> Some(a.state), RoleDivisions |-> roles]

\* updatePhoneBody: the Phone of updatePhone has no State.
updatePhoneBody(a) == [Name |-> Some(a.name), State |-> None]

(***************************************************************************)
(* The vendor API (the environment).  life is where the entity is in its   *)
(* server-side life:                                                       *)
(*   absent    no GET finds it (never created, or deleted and gone)        *)
(*   creating  the create is acknowledged, GET does not find it yet        *)
(*   live      GET returns it                                              *)
(*   deleting  the delete is acknowledged, GET still returns it            *)
(*   deleted   GET returns it in the terminal state "deleted"              *)
(* tmpl: the action's templates are retrievable (they propagate apart from *)
(* the action itself).                                                     *)
(***************************************************************************)
NoBody == [Name |-> None, State |-> None]
AbsentServer ==
    [life |-> "absent", id |-> "", state |-> "", version |-> 0,
     body |-> NoBody, tmpl |-> FALSE]

Visible(s) == s.life \in {"live", "deleting", "deleted"}

EntOf(s) ==
    [id |-> s.id, state |-> IF s.life = "deleted" THEN "deleted" ELSE s.state,
     version |-> s.version, body |-> Some(s.body)]

\* Answers to GET /<collection>/<id>.
GetAnswers(s, id) ==
    (IF Visible(s) /\ id = s.id THEN {RespOk(EntOf(s))} ELSE {Resp404})
        \cup RespFaults

\* A template the server holds for what was sent: an empty one is defaulted.
ServerTemplate(p) ==
    IF IsNil(p) \/ Deref(p) = "" THEN "default.vm" ELSE Deref(p)

TemplateOf(s, which) ==
    LET cfg == Deref(s.body.Config)
    IN IF which = "requesttemplate.vm"
       THEN ServerTemplate(Deref(cfg.Request).RequestTemplate)
       ELSE ServerTemplate(Deref(cfg.Response).SuccessTemplate)

\* Answers to GET /integrations/actions/<id>/templates/<which>.
TemplateAnswers(s, id, which) ==
    (IF Visible(s) /\ id = s.id /\ s.tmpl
     THEN {RespOk([NoEnt EXCEPT !.body = Some(TemplateOf(s, which))])}
     ELSE {Resp404})
        \cup RespFaults

\* Answers to POST /<collection>: the server picks the identifier, never
\* one it gave to the entity before.
PostAnswers(s) ==
    {RespOk([NoEnt EXCEPT !.id = i, !.version = 1]) : i \in ServerIds \ {s.id}}
        \cup RespFaults

PostEffect(s, k, resp, body, state) ==
    IF IsErr(resp) THEN s
    ELSE [life |-> "creating", id |-> resp.ent.id, state |-> state,
          version |-> 1, body |-> body, tmpl |-> k # "action"]

\* Answers to PUT /<collection>/<id>.  The generic identity provider is a
\* singleton that PUT creates when it is absent.
PutAnswers(s, k, id) ==
    (IF k = "idp" \/ (s.life = "live" /\ id = s.id)
     THEN {RespOk(EntOf(s))} ELSE {Resp404})
        \cup RespFaults

PutEffect(s, k, resp, body) ==
    IF IsErr(resp) THEN s
    ELSE IF k = "idp" /\ s.life # "live"
    THEN [life |-> "creating", id |-> "generic", state |-> "active",
          version |-> 1, body |-> body, tmpl |-> TRUE]
    ELSE [s EXCEPT !.body = [body EXCEPT !.State = IF IsNil(body.State)
                                                   THEN s.body.State
                                                   ELSE body.State],
                   !.state = OrZero(body.State, s.state),
                   !.version = IF s.version < MaxVersion THEN s.version + 1
                               ELSE s.version]

\* Answers to PATCH /integrations/actions/<id>: the version must be current.
PatchAnswers(s, id, version) ==
    (IF ~(s.life = "live" /\ id = s.id) THEN {Resp404}
     ELSE IF version # Some(s.version) THEN {Resp409}
     ELSE {RespOk(EntOf(s))})
        \cup RespFaults

PatchEffect(s, resp, in) ==
    IF IsErr(resp) THEN s
    ELSE [s EXCEPT !.body = [s.body EXCEPT !.Name = in.Name,
                                           !.Category = in.Category,
                                           !.Config = in.Config],
                   !.version = IF s.version < MaxVersion THEN s.version + 1
                               ELSE s.version]

\* Answers to DELETE /<collection>/<id>.  An OAuth client must be inactive.
DeleteAnswers(s, k, id) ==
    (IF ~(s.life = "live" /\ id = s.id) THEN {Resp404}
     ELSE IF k = "oauth" /\ s.state = "active"
     THEN {Resp("400", "client is active", NoEnt)}
     ELSE {RespOk(NoEnt)})
        \cup RespFaults

DeleteEffect(s, resp) ==
    IF IsErr(resp) THEN s ELSE [s EXCEPT !.life = "deleting"]

(***************************************************************************)
(* The retry helpers.  Each takes what the retried closure returned and    *)
(* the seconds elapsed in the loop, and says how the loop goes on:         *)
(* again (sleep PollInterval, call the closure again) or done with a       *)
(* result.                                                                 *)
(***************************************************************************)
Again == [next |-> "again", result |-> NoResult, clearId |-> FALSE]
Done(result) == [next |-> "done", result |-> result, clearId |-> FALSE]

\* The polling of withRetries under a context nobody cancels: until nil, a
\* non-retryable error or the deadline.
retryUntil(r, secs, timeout) ==
    IF r.t = "nil" THEN Done(Ok)
    ELSE IF r.t = "nonretryable" THEN Done(Failed(r.cause))
    ELSE IF secs + PollInterval >= timeout THEN Done(RetryExhausted(r.cause))
    ELSE Again

\* withRetries(ctx, timeout, closure): poll until nil, a non-retryable error
\* or the deadline; a cancelled ctx aborts the attempt in progress with the
\* context's error.
withRetries(ctx, r, secs, timeout) ==
    IF ctx = "cancelled" THEN Done(Cancelled)
    ELSE retryUntil(r, secs, timeout)

\* withRetriesForRead(ctx, timeout, d, closure): after a create a not-found
\* is polled like withRetries; in any other read it clears the identifier
\* and is no error.
withRetriesForRead(ctx, r, secs, timeout, isNewResource) ==
    IF r.t = "retryable" /\ ~isNewResource
    THEN [next |-> "done", result |-> Ok, clearId |-> TRUE]
    ELSE withRetries(ctx, r, secs, timeout)

\* retryWhen(shouldRetry, closure): the closure returned (resp, err); go
\* again only when shouldRetry(resp), a bounded number of times.
RetryWhenAttempts == 10
retryWhen(resp, cause, tries) ==
    IF isVersionMismatch(resp) /\ tries + 1 < RetryWhenAttempts THEN Again
    ELSE IF isVersionMismatch(resp) THEN Done(RetryExhausted(cause))
    ELSE Done(Failed(cause))

(***************************************************************************)
(* The closures of the delete operations: what one confirmation poll       *)
(* returns for the answer to its GET.                                      *)
(***************************************************************************)
deleteIntegrationAction_poll(resp) ==
    IF IsErr(resp)
    THEN IF isStatus404(resp) THEN RetryNil ELSE NonRetryableError(resp.msg)
    ELSE RetryableError("")

\* A faulty poll that gives up as soon as the entity is still there.
deleteCredential_poll_givesUp(resp) ==
    IF IsErr(resp)
    THEN IF isStatus404(resp) THEN RetryNil ELSE NonRetryableError(resp.msg)
    ELSE NonRetryableError("")

deleteCredential_poll(resp) ==
    IF IsErr(resp)
    THEN IF isStatus404(resp) THEN RetryNil ELSE NonRetryableError(resp.msg)
    ELSE RetryableError("")

deleteIdpGeneric_poll(resp) ==
    IF IsErr(resp)
    THEN IF isStatus404(resp) THEN RetryNil ELSE NonRetryableError(resp.msg)
    ELSE RetryableError("")

\* A faulty poll that takes any answer carrying the phone for a deletion.
deletePhone_poll_anyAnswer(resp) ==
    IF IsErr(resp)
    THEN IF isStatus404(resp) THEN RetryNil ELSE NonRetryableError(resp.msg)
    ELSE RetryNil

deletePhone_poll(resp) ==
    IF IsErr(resp)
    THEN IF isStatus404(resp) THEN RetryNil ELSE NonRetryableError(resp.msg)
    ELSE IF resp.ent.state = "deleted" THEN RetryNil
    ELSE RetryableError("")

deleteOAuthClient_poll(resp) ==
    IF IsErr(resp)
    THEN IF isStatus404(resp) THEN RetryNil ELSE NonRetryableError(resp.msg)
    ELSE IF resp.ent.state = "deleted" THEN RetryNil
    ELSE RetryableError("")

DeletePoll(k, resp) ==
    CASE k = "action" -> deleteIntegrationAction_poll(resp)
      [] k = "credential" -> deleteCredential_poll(resp)
      [] k = "idp" -> deleteIdpGeneric_poll(resp)
      [] k = "phone" -> deletePhone_poll(resp)
      [] k = "oauth" -> deleteOAuthClient_poll(resp)

(***************************************************************************)
(* The closures of the read operations: what the GET's answer makes of the *)
(* attributes a, and what the closure returns.                             *)
(***************************************************************************)
ReadErr(resp) ==
    IF isStatus404(resp) THEN RetryableError(resp.msg)
    ELSE NonRetryableError(resp.msg)

\* A faulty read closure for which a not-found is a hard error.
readCredential_get_hard404(a, resp) ==
    IF IsErr(resp) THEN [r |-> NonRetryableError(resp.msg), attrs |-> a]
    ELSE [r |-> RetryNil,
          attrs |-> [a EXCEPT !.name = Deref(Deref(resp.ent.body).Name)]]

readCredential_get(a, resp) ==
    IF IsErr(resp) THEN [r |-> ReadErr(resp), attrs |-> a]
    ELSE [r |-> RetryNil,
          attrs |-> [a EXCEPT !.name = Deref(Deref(resp.ent.body).Name)]]

\* A faulty read closure for which every error is retryable.
readIdpGeneric_get_allRetryable(a, resp) ==
    IF IsErr(resp) THEN [r |-> RetryableError(resp.msg), attrs |-> a]
    ELSE [r |-> RetryNil,
          attrs |-> [a EXCEPT !.name = OrZero(Deref(resp.ent.body).Name, "")]]

readIdpGeneric_get(a, resp) ==
    IF IsErr(resp) THEN [r |-> ReadErr(resp), attrs |-> a]
    ELSE [r |-> RetryNil,
          attrs |-> [a EXCEPT !.name = OrZero(Deref(resp.ent.body).Name, "")]]

readPhone_get(a, resp) ==
    IF IsErr(resp) THEN [r |-> ReadErr(resp), attrs |-> a]
    ELSE [r |-> RetryNil,
          attrs |-> [a EXCEPT !.name = Deref(Deref(resp.ent.body).Name),
                              !.state = resp.ent.state]]

readOAuthClient_get(a, resp) ==
    IF IsErr(resp) THEN [r |-> ReadErr(resp), attrs |-> a]
    ELSE [r |-> RetryNil,
          attrs |-> [a EXCEPT !.name = Deref(Deref(resp.ent.body).Name),
                              !.state = resp.ent.state]]

\* readIntegrationAction, the action GET: on success the closure goes on to
\* the templates ("continue").
readIntegrationAction_get(a, resp) ==
    IF IsErr(resp) THEN [r |-> ReadErr(resp), attrs |-> a]
    ELSE [r |-> [t |-> "continue", cause |-> ""], attrs |-> a]

ReadGet(k, a, resp) ==
    CASE k = "action" -> readIntegrationAction_get(a, resp)
      [] k = "credential" -> readCredential_get(a, resp)
      [] k = "idp" -> readIdpGeneric_get(a, resp)
      [] k = "phone" -> readPhone_get(a, resp)
      [] k = "oauth" -> readOAuthClient_get(a, resp)

\* readIntegrationAction, a template GET: a not-found clears the identifier
\* and ends the closure with nil.
\* A faulty read that goes on whatever the template request answered.
readIntegrationAction_template_lenient(resp) == [t |-> "continue", cause |-> ""]

readIntegrationAction_template(resp) ==
    IF IsErr(resp)
    THEN IF isStatus404(resp) THEN [t |-> "clear", cause |-> ""]
         ELSE NonRetryableError(resp.msg)
    ELSE [t |-> "continue", cause |-> ""]

\* readIntegrationAction, the d.Set calls once the three GETs succeeded.
readIntegrationAction_set(a, action, reqTemp, successTemp) ==
    LET hasConfig == ~IsNil(action.Config)
        config == Deref(action.Config)
        hasContract == ~IsNil(action.Contract)
        contract == Deref(action.Contract)
    IN [a EXCEPT
         !.name = OrZero(action.Name, ""),
         !.category = OrZero(action.Category, ""),
         !.integration_id = OrZero(action.IntegrationId, ""),
         !.secure = OrZero(action.Secure, FALSE),
         !.contract_input =
             IF hasContract /\ ~IsNil(contract.Input)
             THEN flattenActionContract(Deref(contract.Input)) ELSE "",
         !.contract_output =
             IF hasContract /\ ~IsNil(contract.Output)
             THEN flattenActionContract(Deref(contract.Output)) ELSE "",
         !.config_request =
             IF hasConfig /\ ~IsNil(config.Request)
             THEN flattenActionConfigRequest(
                      [Deref(config.Request) EXCEPT !.RequestTemplate = reqTemp])
             ELSE <<>>,
         !.config_response =
             IF hasConfig /\ ~IsNil(config.Response)
             THEN flattenActionConfigResponse(
                      [Deref(config.Response) EXCEPT !.SuccessTemplate = successTemp])
             ELSE <<>>]

(***************************************************************************)
(* State.                                                                  *)
(***************************************************************************)
VARIABLES
    kind,       \* the entity type of the resource
    op,         \* the operation in progress: idle, create, read, update, delete
    pc,         \* where the operation is
    d,          \* schema.ResourceData: [id, attrs]
    inp,        \* what the operation was invoked with besides d
    loc,        \* the operation's local variables
    secs,       \* seconds elapsed in the polling loop in progress
    result,     \* the diagnostics the operation returned
    calls,      \* history: the API calls of the operation, with their answers
    prev,       \* history: the operation before this one, its result and
                \* the configuration and identifier it was invoked with
    opsLeft,    \* operations the orchestrator may still invoke
    srv,        \* the vendor API's entity
    stations,   \* the vendor API's station of the web RTC user
    listing,    \* the vendor API's collection, in listing order
    exporter,   \* the exporter in progress: [pageNum, resources, status, msg]
                \* and, as history, the entities of the pages it got
                \* (pages), how many each page held (lens) and the
                \* number of the page whose request failed (failedAt)
    churn,      \* history: the collection changed while the exporter paged
    lookup,     \* the data source read in progress: [name, pageNum, secs,
                \* id, status, msg] and, as history, the entities of the
                \* pages it got (pages) and the pages it asked for (asked)
    calc        \* a conversion in progress: its input, the stage it is at
                \* and the values it has produced

crudVars == <<kind, op, pc, d, inp, loc, secs, result, calls, prev, opsLeft,
              srv, stations>>
exportVars == <<listing, exporter, churn>>
vars == <<kind, op, pc, d, inp, loc, secs, result, calls, prev, opsLeft, srv,
          stations, listing, exporter, churn, lookup, calc>>

NoLoc ==
    [ent |-> NoEnt, getResp |-> RespOk(NoEnt), reqTemp |-> None,
     contract |-> None, roles |-> None, tries |-> 0, stationId |-> ""]
NoInp ==
    [webRtcUser |-> "", userChanged |-> FALSE, changed |-> TRUE,
     changedKeys |-> {}, roles |-> <<>>,
     config |-> DefaultAttrs, id |-> "", ctx |-> "live", cancelAt |-> 0]
NoPrev ==
    [op |-> "none", result |-> NoResult, config |-> DefaultAttrs, id |-> ""]
NoStations == [visible |-> FALSE, assigned |-> ""]
IdleExporter ==
    [pageNum |-> 0, resources |-> {}, pages |-> {}, lens |-> <<>>,
     failedAt |-> 0, status |-> "idle", msg |-> ""]
IdleCalc == [stage |-> "idle"]
IdleLookup ==
    [name |-> <<>>, pageNum |-> 0, secs |-> 0, id |-> <<>>, status |-> "idle",
     msg |-> "", pages |-> {}, asked |-> <<>>]

Call(verb, id, arg, resp) ==
    [verb |-> verb, id |-> id, arg |-> arg, status |-> resp.status,
     msg |-> resp.msg, seen |-> resp.ent.state]

\* A resource that exists: created earlier with the default configuration.
LiveServer(k) ==
    [life |-> "live", id |-> IF k = "idp" THEN "generic" ELSE "id1",
     state |-> "active", version |-> 1,
     body |-> IF k = "action"
              THEN IntegrationAction(DefaultAttrs,
                                     buildSdkActionContract(DefaultAttrs).contract)
              ELSE IF k = "oauth" THEN Oauthclientrequest(DefaultAttrs, None)
              ELSE EntityBody(DefaultAttrs),
     tmpl |-> TRUE]

InitCrud(k, exists, attrs, ops) ==
    /\ kind = k
    /\ op = "idle"
    /\ pc = "idle"
    /\ d = [id |-> IF exists THEN LiveServer(k).id ELSE "", attrs |-> attrs]
    /\ inp = NoInp
    /\ loc = NoLoc
    /\ secs = 0
    /\ result = NoResult
    /\ calls = <<>>
    /\ prev = NoPrev
    /\ opsLeft = ops
    /\ srv = IF exists THEN LiveServer(k) ELSE AbsentServer
    /\ stations = NoStations

InitExportIdle ==
    /\ listing = <<>>
    /\ exporter = IdleExporter
    /\ churn = FALSE
    /\ lookup = IdleLookup
    /\ calc = IdleCalc

Init ==
    /\ \E k \in Kinds, exists \in BOOLEAN :
          InitCrud(k, exists, DefaultAttrs, MaxOps)
    /\ InitExportIdle

(***************************************************************************)
(* The orchestrator invokes an operation.                                  *)
(***************************************************************************)
Ops == {"create", "read", "update", "delete"}
Names == {"n1", "n2"}
RoleConfigs ==
    {<<>>, <<[role_id |-> "role", division_id |-> "div"]>>,
     <<[role_id |-> "role", division_id |-> ""]>>}

\* The attributes of a credential, and d.HasChanges(keys...) for the set of
\* attributes whose declared value differs from the state's
CredentialKeys == {"name", "credential_type_name", "fields"}
HasChanges(changedKeys, keys) == changedKeys \cap keys # {}

\* updateCredential testing two of the attributes only
updateCredential_keys_noFields == {"name", "credential_type_name"}

\* The attributes updateCredential tests before it sends the PUT
updateCredential_keys == {"name", "credential_type_name", "fields"}

\* What an operation is invoked with besides the attributes: the web RTC
\* user of a phone and whether it changed, the attributes of a credential
\* that changed and what HasChanges answers, the roles of an OAuth client.  Start adds config,
\* the attributes as declared, which the read at the operation's end
\* overwrites in d, and id, the identifier d holds when the operation is
\* invoked.  ctx is the context of the operation and cancelAt, as history,
\* the number of requests made when it was cancelled.
Inputs(k, o) ==
    CASE k = "phone" /\ o = "create" ->
             {[NoInp EXCEPT !.webRtcUser = u] : u \in {"", "user"}}
      [] k = "phone" /\ o = "update" ->
             {[NoInp EXCEPT !.webRtcUser = ""]}
               \cup {[NoInp EXCEPT !.webRtcUser = "user", !.userChanged = c] :
                        c \in BOOLEAN}
      [] k = "credential" /\ o = "update" ->
             {[NoInp EXCEPT !.changedKeys = keys,
                            !.changed = HasChanges(keys, updateCredential_keys)] :
                 keys \in SUBSET CredentialKeys}
      [] k = "oauth" /\ o \in {"create", "update", "delete"} ->
             {[NoInp EXCEPT !.roles = r] : r \in RoleConfigs}
      [] OTHER -> {NoInp}

\* A faulty deleteOAuthClient that leaves the state as declared.
deleteOAuthClient_state_kept(a) == a

\* deleteOAuthClient: d.Set("state", "inactive") before the update.
deleteOAuthClient_state(a) == [a EXCEPT !.state = "inactive"]

FirstPc(k, o, i) ==
    CASE o = "create" ->
             (CASE k = "action" -> "build"
                [] k = "credential" -> "post"
                [] k = "idp" -> "put"
                [] k = "phone" -> "metabase"
                [] k = "oauth" -> "roles")
      [] o = "read" -> "get"
      [] o = "update" ->
             (CASE k = "action" -> "upd_get"
                [] k = "credential" -> IF i.changed THEN "put" ELSE "get"
                [] k = "idp" -> "put"
                [] k = "phone" -> "put"
                [] k = "oauth" -> "roles")
      [] o = "delete" -> IF k = "oauth" THEN "roles" ELSE "delete"

Start ==
    /\ op = "idle"
    /\ opsLeft > 0
    /\ \E o \in Ops, n \in Names :
          /\ IF o = "create" THEN d.id = "" /\ srv.life = "absent"
             ELSE d.id # ""
          /\ o # "update" => n = d.attrs.name
          /\ \E i \in Inputs(kind, o) :
                /\ kind = "credential" /\ o = "update" =>
                      ("name" \in i.changedKeys <=> n # d.attrs.name)
                /\ LET declared == IF o = "delete" /\ kind = "oauth"
                                   THEN deleteOAuthClient_state(d.attrs)
                                   ELSE [d.attrs EXCEPT !.name = n]
                   IN /\ op' = o
                      /\ inp' = [i EXCEPT !.config = declared, !.id = d.id]
                      /\ pc' = FirstPc(kind, o, i)
                      /\ d' = [id |-> IF o = "create" /\ kind = "idp"
                                      THEN "generic" ELSE d.id,
                               attrs |-> declared]
    /\ opsLeft' = opsLeft - 1
    /\ loc' = NoLoc
    /\ secs' = 0
    /\ result' = NoResult
    /\ calls' = <<>>
    /\ UNCHANGED <<kind, prev, srv, stations, listing, exporter, churn,
                   lookup, calc>>

\* The operation returned to the orchestrator.
Return ==
    /\ pc = "done"
    /\ op' = "idle"
    /\ pc' = "idle"
    /\ prev' = [op |-> op, result |-> result, config |-> inp.config,
                 id |-> inp.id]
    /\ result' = NoResult
    /\ calls' = <<>>
    /\ secs' = 0
    /\ loc' = NoLoc
    /\ inp' = NoInp
    /\ UNCHANGED <<kind, d, opsLeft, srv, stations, listing, exporter, churn,
                   lookup, calc>>

\* What no step of an operation changes.
frame == <<kind, op, inp, prev, opsLeft, listing, exporter, churn, lookup, calc>>

(***************************************************************************)
(* Steps of create and update.                                             *)
(***************************************************************************)
Finish(res) == pc' = "done" /\ result' = res

\* The generic identity provider is a singleton: its calls carry no key.
Key(k, id) == IF k = "idp" THEN "generic" ELSE id

\* createIntegrationAction: buildSdkActionContract before any call.
BuildContract ==
    /\ pc = "build"
    /\ LET built == buildSdkActionContract(d.attrs)
       IN IF built.err
          THEN Finish(Failed("")) /\ loc' = loc
          ELSE /\ pc' = "post"
               /\ loc' = [loc EXCEPT !.contract = built.contract]
               /\ result' = result
    /\ UNCHANGED <<d, secs, calls, srv, stations>>
    /\ UNCHANGED frame

NeedsHome(roleConfig) ==
    \E i \in 1..Len(roleConfig) : roleConfig[i].division_id = ""

\* Answers to the home division lookup of getHomeDivisionID.
HomeAnswers == {RespOk([NoEnt EXCEPT !.id = "home"])} \cup RespFaults

\* A faulty builder that sends the division as it is configured.
buildOAuthRoles_asConfigured(roleConfig, home) ==
    IF Len(roleConfig) = 0 THEN [err |-> FALSE, cause |-> "", roles |-> None]
    ELSE [err |-> FALSE, cause |-> "",
          roles |-> Some([i \in 1..Len(roleConfig) |->
                            [RoleId |-> roleConfig[i].role_id,
                             DivisionId |-> roleConfig[i].division_id]])]

buildOAuthRoles(roleConfig, home) ==
    IF Len(roleConfig) = 0 THEN [err |-> FALSE, cause |-> "", roles |-> None]
    ELSE IF NeedsHome(roleConfig) /\ IsErr(home)
    THEN [err |-> TRUE, cause |-> home.msg, roles |-> None]
    ELSE [err |-> FALSE, cause |-> "",
          roles |-> Some([i \in 1..Len(roleConfig) |->
                            [RoleId |-> roleConfig[i].role_id,
                             DivisionId |->
                                 IF roleConfig[i].division_id = ""
                                 THEN home.ent.id
                                 ELSE roleConfig[i].division_id]])]

\* createOAuthClient and updateOAuthClient: buildOAuthRoles before the call.
BuildRoles ==
    /\ pc = "roles"
    /\ \E home \in IF NeedsHome(inp.roles) THEN HomeAnswers ELSE {RespOk(NoEnt)} :
          LET built == buildOAuthRoles(inp.roles, home)
          IN /\ calls' = IF NeedsHome(inp.roles)
                         THEN Append(calls, Call("GET_HOME", "", None, home))
                         ELSE calls
             /\ IF built.err
                THEN Finish(Failed(built.cause)) /\ loc' = loc
                ELSE /\ pc' = IF op = "create" THEN "post" ELSE "put"
                     /\ loc' = [loc EXCEPT !.roles = built.roles]
                     /\ result' = result
    /\ UNCHANGED <<d, secs, srv, stations>>
    /\ UNCHANGED frame

\* createPhone: getPhoneMetaBaseId reads the phone base settings.
MetaBase ==
    /\ pc = "metabase"
    /\ \E resp \in {RespOk(NoEnt), Resp404} \cup RespFaults :
          /\ calls' = Append(calls, Call("GET_PHONEBASE", "", None, resp))
          /\ IF IsErr(resp) THEN Finish(Failed(resp.msg))
             ELSE pc' = "post" /\ result' = result
    /\ UNCHANGED <<d, loc, secs, srv, stations>>
    /\ UNCHANGED frame

PostBody(k, a, l) ==
    CASE k = "action" -> IntegrationAction(a, l.contract)
      [] k = "oauth" -> Oauthclientrequest(a, l.roles)
      [] OTHER -> EntityBody(a)

\* The create call and d.SetId of createIntegrationAction, createCredential,
\* createPhone and createOAuthClient.
PostCall ==
    /\ pc = "post"
    /\ \E resp \in PostAnswers(srv) :
          /\ calls' = Append(calls, Call("POST", "", Some(d.attrs.state), resp))
          /\ srv' = PostEffect(srv, kind, resp, PostBody(kind, d.attrs, loc),
                               d.attrs.state)
          /\ IF IsErr(resp)
             THEN Finish(Failed(resp.msg)) /\ d' = d
             ELSE /\ d' = [d EXCEPT !.id = resp.ent.id]
                  /\ pc' = IF kind = "phone" /\ inp.webRtcUser # ""
                           THEN "stations" ELSE "get"
                  /\ result' = result
    /\ secs' = 0
    /\ UNCHANGED <<loc, stations>>
    /\ UNCHANGED frame

PutBody(k, a, l) ==
    CASE k = "phone" -> updatePhoneBody(a)
      [] k = "oauth" -> Oauthclientrequest(a, l.roles)
      [] OTHER -> EntityBody(a)

\* The update call of updateCredential, updateIdpGeneric, updatePhone and
\* updateOAuthClient; the sleep after it changes nothing.
PutCall ==
    /\ pc = "put"
    /\ LET body == PutBody(kind, d.attrs, loc)
       IN \E resp \in PutAnswers(srv, kind, Key(kind, d.id)) :
             /\ calls' = Append(calls, Call("PUT", Key(kind, d.id), body.State, resp))
             /\ srv' = PutEffect(srv, kind, resp, body)
             /\ IF IsErr(resp) THEN Finish(Failed(resp.msg))
                ELSE /\ pc' = IF kind = "phone" /\ inp.webRtcUser # ""
                                 /\ inp.userChanged
                              THEN "stations" ELSE "get"
                     /\ result' = result
    /\ secs' = 0
    /\ UNCHANGED <<d, loc, stations>>
    /\ UNCHANGED frame

\* What the closure of updateIntegrationAction hands retryWhen after its
\* PATCH failed: the response of its GET, and the PATCH's error.
updateIntegrationAction_patchFailed(getResp, patchResp) ==
    [resp |-> getResp, cause |-> patchResp.msg]

\* updateIntegrationAction: the closure's GET of the latest version.
UpdGet ==
    /\ pc = "upd_get"
    /\ \E resp \in GetAnswers(srv, d.id) :
          /\ calls' = Append(calls, Call("GET", d.id, None, resp))
          /\ IF IsErr(resp)
             THEN LET w == retryWhen(resp, resp.msg, loc.tries)
                  IN IF w.next = "again"
                     THEN /\ loc' = [loc EXCEPT !.tries = @ + 1]
                          /\ UNCHANGED <<pc, result>>
                     ELSE Finish(w.result) /\ loc' = loc
             ELSE /\ loc' = [loc EXCEPT !.ent = resp.ent, !.getResp = resp]
                  /\ pc' = "upd_patch"
                  /\ result' = result
    /\ UNCHANGED <<d, secs, srv, stations>>
    /\ UNCHANGED frame

\* A faulty update that takes a rejected PATCH for an accepted one.
UpdPatch_swallow ==
    /\ pc = "upd_patch"
    /\ LET in == Updateactioninput(d.attrs, Some(loc.ent.version))
       IN \E resp \in PatchAnswers(srv, d.id, in.Version) :
             /\ calls' = Append(calls, Call("PATCH", d.id, in.Version, resp))
             /\ srv' = PatchEffect(srv, resp, in)
             /\ pc' = "get" /\ result' = result /\ loc' = loc
    /\ secs' = 0
    /\ UNCHANGED <<d, stations>>
    /\ UNCHANGED frame

\* updateIntegrationAction: the closure's PATCH with the version just read.
UpdPatch ==
    /\ pc = "upd_patch"
    /\ LET in == Updateactioninput(d.attrs, Some(loc.ent.version))
       IN \E resp \in PatchAnswers(srv, d.id, in.Version) :
             /\ calls' = Append(calls, Call("PATCH", d.id, in.Version, resp))
             /\ srv' = PatchEffect(srv, resp, in)
             /\ IF IsErr(resp)
                THEN LET ret == updateIntegrationAction_patchFailed(loc.getResp, resp)
                         w == retryWhen(ret.resp, ret.cause, loc.tries)
                     IN IF w.next = "again"
                        THEN /\ loc' = [loc EXCEPT !.tries = @ + 1]
                             /\ pc' = "upd_get"
                             /\ result' = result
                        ELSE Finish(w.result) /\ loc' = loc
                ELSE pc' = "get" /\ result' = result /\ loc' = loc
    /\ secs' = 0
    /\ UNCHANGED <<d, stations>>
    /\ UNCHANGED frame

\* Answers to GET /stations for the user: the user's station, once it exists.
StationAnswers(st) ==
    {RespOk([NoEnt EXCEPT !.id = IF st.visible THEN "station" ELSE ""])}
        \cup RespFaults

\* A faulty poll that is content with an empty listing.
assignUserToWebRtcPhone_poll_emptyOk(resp) ==
    IF IsErr(resp) THEN NonRetryableError(resp.msg) ELSE RetryNil

assignUserToWebRtcPhone_poll(resp) ==
    IF IsErr(resp) THEN NonRetryableError(resp.msg)
    ELSE IF resp.ent.id = "" THEN RetryableError("")
    ELSE RetryNil

\* assignUserToWebRtcPhone: poll for the user's station.
StationsPoll ==
    /\ pc = "stations"
    /\ \E resp \in StationAnswers(stations) :
          LET w == withRetries(inp.ctx, assignUserToWebRtcPhone_poll(resp), secs,
                               StationTimeout)
          IN /\ calls' = Append(calls, Call("GET_STATIONS", inp.webRtcUser, None, resp))
             /\ IF w.next = "again"
                THEN /\ secs' = secs + PollInterval
                     /\ UNCHANGED <<pc, result, loc>>
                ELSE IF w.result = Ok
                THEN /\ pc' = "assign"
                     /\ loc' = [loc EXCEPT !.stationId = resp.ent.id]
                     /\ secs' = 0
                     /\ result' = result
                ELSE Finish(w.result) /\ secs' = secs /\ loc' = loc
    /\ UNCHANGED <<d, srv, stations>>
    /\ UNCHANGED frame

\* assignUserToWebRtcPhone: make the station the user's default station.
AssignPut ==
    /\ pc = "assign"
    /\ \E resp \in {RespOk(NoEnt)} \cup RespFaults :
          /\ calls' = Append(calls, Call("PUT_STATION", loc.stationId, None, resp))
          /\ IF IsErr(resp)
             THEN Finish(Failed(resp.msg)) /\ stations' = stations
             ELSE /\ pc' = "get"
                  /\ result' = result
                  /\ stations' = [stations EXCEPT !.assigned = loc.stationId]
    /\ secs' = 0
    /\ UNCHANGED <<d, loc, srv>>
    /\ UNCHANGED frame

(***************************************************************************)
(* Steps of read: readIntegrationAction, readCredential, readIdpGeneric,   *)
(* readPhone and readOAuthClient, each a closure under withRetriesForRead. *)
(* A create and an update end with the read; deleteOAuthClient goes on to  *)
(* its delete call when the read of its update returned no error.          *)
(***************************************************************************)
ReadDone(res) ==
    IF op = "delete" /\ res = Ok
    THEN pc' = "delete" /\ result' = result
    ELSE Finish(res)

\* The closure's GET of the entity.
ReadStep ==
    /\ pc = "get"
    /\ \E resp \in GetAnswers(srv, Key(kind, d.id)) :
          LET out == ReadGet(kind, d.attrs, resp)
              w == withRetriesForRead(inp.ctx, out.r, secs, ReadTimeout, op = "create")
          IN /\ calls' = Append(calls, Call("GET", Key(kind, d.id), None, resp))
             /\ IF out.r.t = "continue"
                THEN /\ pc' = "get_requesttemplate"
                     /\ loc' = [loc EXCEPT !.ent = resp.ent]
                     /\ UNCHANGED <<d, secs, result>>
                ELSE IF w.next = "again"
                THEN /\ secs' = secs + PollInterval
                     /\ UNCHANGED <<pc, d, loc, result>>
                ELSE /\ d' = [id |-> IF w.clearId THEN "" ELSE d.id,
                              attrs |-> out.attrs]
                     /\ ReadDone(w.result)
                     /\ UNCHANGED <<secs, loc>>
    /\ UNCHANGED <<srv, stations>>
    /\ UNCHANGED frame

\* readIntegrationAction: the closure's GET of the request template.
ReadRequestTemplate ==
    /\ pc = "get_requesttemplate"
    /\ \E resp \in TemplateAnswers(srv, d.id, "requesttemplate.vm") :
          LET t == readIntegrationAction_template(resp)
          IN /\ calls' = Append(calls, Call("GET_TEMPLATE", d.id, None, resp))
             /\ IF t.t = "continue"
                THEN /\ pc' = "get_successtemplate"
                     /\ loc' = [loc EXCEPT !.reqTemp = resp.ent.body]
                     /\ UNCHANGED <<d, result>>
                ELSE IF t.t = "clear"
                THEN /\ d' = [d EXCEPT !.id = ""]
                     /\ ReadDone(withRetriesForRead(inp.ctx, RetryNil, secs, ReadTimeout,
                                                    op = "create").result)
                     /\ loc' = loc
                ELSE /\ ReadDone(withRetriesForRead(inp.ctx, t, secs, ReadTimeout,
                                                    op = "create").result)
                     /\ UNCHANGED <<d, loc>>
    /\ UNCHANGED <<secs, srv, stations>>
    /\ UNCHANGED frame

\* readIntegrationAction: the closure's GET of the success template, and on
\* success its d.Set calls.
ReadSuccessTemplate ==
    /\ pc = "get_successtemplate"
    /\ \E resp \in TemplateAnswers(srv, d.id, "successtemplate.vm") :
          LET t == readIntegrationAction_template(resp)
          IN /\ calls' = Append(calls, Call("GET_TEMPLATE", d.id, None, resp))
             /\ IF t.t = "continue"
                THEN /\ d' = [d EXCEPT !.attrs =
                                readIntegrationAction_set(d.attrs, Deref(loc.ent.body),
                                                          loc.reqTemp, resp.ent.body)]
                     /\ ReadDone(withRetriesForRead(inp.ctx, RetryNil, secs, ReadTimeout,
                                                    op = "create").result)
                ELSE IF t.t = "clear"
                THEN /\ d' = [d EXCEPT !.id = ""]
                     /\ ReadDone(withRetriesForRead(inp.ctx, RetryNil, secs, ReadTimeout,
                                                    op = "create").result)
                ELSE /\ ReadDone(withRetriesForRead(inp.ctx, t, secs, ReadTimeout,
                                                    op = "create").result)
                     /\ d' = d
    /\ UNCHANGED <<loc, secs, srv, stations>>
    /\ UNCHANGED frame

(***************************************************************************)
(* Steps of delete: deleteIntegrationAction, deleteCredential,             *)
(* deleteIdpGeneric, deletePhone and deleteOAuthClient.                    *)
(***************************************************************************)
\* The delete call.
DeleteCall ==
    /\ pc = "delete"
    /\ \E resp \in DeleteAnswers(srv, kind, Key(kind, d.id)) :
          /\ calls' = Append(calls, Call("DELETE", Key(kind, d.id), None, resp))
          /\ srv' = DeleteEffect(srv, resp)
          /\ IF IsErr(resp) THEN Finish(Failed(resp.msg))
             ELSE pc' = "poll" /\ result' = result
    /\ secs' = 0
    /\ UNCHANGED <<d, loc, stations>>
    /\ UNCHANGED frame

\* A faulty poll that runs under a context of its own.
DeletePollStep_background ==
    /\ pc = "poll"
    /\ \E resp \in GetAnswers(srv, Key(kind, d.id)) :
          LET w == retryUntil(DeletePoll(kind, resp), secs, DeleteTimeout)
          IN /\ calls' = Append(calls, Call("GET", Key(kind, d.id), None, resp))
             /\ IF w.next = "again"
                THEN secs' = secs + PollInterval /\ UNCHANGED <<pc, result>>
                ELSE Finish(w.result) /\ secs' = secs
    /\ UNCHANGED <<d, loc, srv, stations>>
    /\ UNCHANGED frame

\* One round of the confirmation poll under withRetries.
DeletePollStep ==
    /\ pc = "poll"
    /\ \E resp \in GetAnswers(srv, Key(kind, d.id)) :
          LET w == withRetries(inp.ctx, DeletePoll(kind, resp), secs, DeleteTimeout)
          IN /\ calls' = Append(calls, Call("GET", Key(kind, d.id), None, resp))
             /\ IF w.next = "again"
                THEN secs' = secs + PollInterval /\ UNCHANGED <<pc, result>>
                ELSE Finish(w.result) /\ secs' = secs
    /\ UNCHANGED <<d, loc, srv, stations>>
    /\ UNCHANGED frame

(***************************************************************************)
(* The environment.                                                        *)
(***************************************************************************)
NextLife(s, k) ==
    CASE s.life = "creating" -> {"live"}
      [] s.life = "deleting" ->
             IF k \in SoftDeleteKinds THEN {"absent", "deleted"} ELSE {"absent"}
      [] s.life = "deleted" -> {"absent"}
      [] OTHER -> {}

\* A mutation the server acknowledged becomes visible to GET.
Propagate ==
    /\ \E l \in NextLife(srv, kind) : srv' = [srv EXCEPT !.life = l]
    /\ UNCHANGED <<kind, op, pc, d, inp, loc, secs, result, calls, prev,
                   opsLeft, stations, listing, exporter, churn, lookup, calc>>

\* The templates of a created action become retrievable.
PropagateTemplates ==
    /\ kind = "action"
    /\ srv.life \in {"creating", "live"}
    /\ ~srv.tmpl
    /\ srv' = [srv EXCEPT !.tmpl = TRUE]
    /\ UNCHANGED <<kind, op, pc, d, inp, loc, secs, result, calls, prev,
                   opsLeft, stations, listing, exporter, churn, lookup, calc>>

\* The station of the phone's web RTC user comes into being.
StationAppears ==
    /\ kind = "phone"
    /\ srv.life \in {"creating", "live"}
    /\ ~stations.visible
    /\ stations' = [stations EXCEPT !.visible = TRUE]
    /\ UNCHANGED <<kind, op, pc, d, inp, loc, secs, result, calls, prev,
                   opsLeft, srv, listing, exporter, churn, lookup, calc>>

\* Somebody else writes the integration action: its version moves on.
OutOfBandWrite ==
    /\ kind = "action"
    /\ srv.life = "live"
    /\ srv.version < MaxVersion
    /\ srv' = [srv EXCEPT !.version = @ + 1]
    /\ UNCHANGED <<kind, op, pc, d, inp, loc, secs, result, calls, prev,
                   opsLeft, stations, listing, exporter, churn, lookup, calc>>

\* Somebody else deletes the entity.
OutOfBandDelete ==
    /\ srv.life = "live"
    /\ srv' = [srv EXCEPT !.life = "absent"]
    /\ UNCHANGED <<kind, op, pc, d, inp, loc, secs, result, calls, prev,
                   opsLeft, stations, listing, exporter, churn, lookup, calc>>

Environment ==
    Propagate \/ PropagateTemplates \/ StationAppears \/ OutOfBandWrite
        \/ OutOfBandDelete

\* The steps of the operation in progress.
Step ==
    \/ BuildContract \/ BuildRoles \/ MetaBase \/ PostCall \/ PutCall
    \/ UpdGet \/ UpdPatch \/ StationsPoll \/ AssignPut
    \/ ReadStep \/ ReadRequestTemplate \/ ReadSuccessTemplate
    \/ DeleteCall \/ DeletePollStep

Next == Start \/ Step \/ Return \/ Environment

Spec == Init /\ [][Next]_vars

(***************************************************************************)
(* The create of an integration action alone, from every configuration of  *)
(* ActionConfigs, against a server nobody else writes to: it stores what   *)
(* the create sent, may lag and may fail any call.                         *)
(***************************************************************************)
InitRoundTrip ==
    /\ \E c \in ActionConfigs : InitCrud("action", FALSE, c, MaxOps)
    /\ InitExportIdle

StartCreate == Start /\ op' = "create"

NextRoundTrip ==
    \/ StartCreate \/ BuildContract \/ PostCall
    \/ ReadStep \/ ReadRequestTemplate \/ ReadSuccessTemplate
    \/ Return \/ Propagate \/ PropagateTemplates

SpecRoundTrip == InitRoundTrip /\ [][NextRoundTrip]_vars

(***************************************************************************)
(* An integration action under changes of its declared configuration.  The *)
(* schema marks integration_id, secure, contract_input and contract_output *)
(* ForceNew; the orchestrator plans an update in place when no such field  *)
(* differs between the state and the declared configuration, and otherwise *)
(* a replacement: the delete of the old resource, then the create of a new *)
(* one from the declared configuration.                                    *)
(***************************************************************************)
ForceNew_secureMutable == {"integration_id", "contract_input", "contract_output"}

ForceNew == {"integration_id", "secure", "contract_input", "contract_output"}

\* DiffSuppressFunc of the two contracts: texts of one JSON value are no
\* difference.
suppressEquivalentJsonDiffs(old, new) ==
    LET ob == jsonStringToInterface(old)
        nb == jsonStringToInterface(new)
    IN ~ob.err /\ ~nb.err /\ ob.val = nb.val

Differs(f, old, new) ==
    IF f \in {"contract_input", "contract_output"}
    THEN ~suppressEquivalentJsonDiffs(old[f], new[f])
    ELSE old[f] # new[f]

RequiresNew(old, new) == \E f \in ForceNew : Differs(f, old, new)

\* Configurations a practitioner declares: each differs from the default in
\* any of the name, secure and the input contract, or in the integration.
ApplyConfigs ==
    {[DefaultAttrs EXCEPT !.name = n, !.secure = sec, !.contract_input = ci] :
        n \in Names, sec \in BOOLEAN, ci \in {"{}", "{ }", "true"}}
        \cup {[DefaultAttrs EXCEPT !.integration_id = "integ2"]}

InitApply ==
    /\ InitCrud("action", TRUE, DefaultAttrs, MaxOps)
    /\ InitExportIdle

\* The orchestrator invokes operation o on the resource data (id, attrs)
\* for the declared configuration c.
Invoke(o, id, attrs, c) ==
    /\ op = "idle"
    /\ opsLeft > 0
    /\ op' = o
    /\ inp' = [NoInp EXCEPT !.config = c, !.id = id]
    /\ pc' = FirstPc(kind, o, NoInp)
    /\ d' = [id |-> id, attrs |-> attrs]
    /\ opsLeft' = opsLeft - 1
    /\ loc' = NoLoc
    /\ secs' = 0
    /\ result' = NoResult
    /\ calls' = <<>>
    /\ UNCHANGED <<kind, prev, srv, stations, listing, exporter, churn,
                   lookup, calc>>

\* The resource is in the orchestrator's state: it has an identifier and
\* no delete of it has succeeded.
InState == d.id # "" /\ ~(prev.op = "delete" /\ prev.result = Ok)

\* No ForceNew field differs: the update runs on the declared configuration.
ApplyUpdate ==
    /\ InState
    /\ \E c \in ApplyConfigs :
          /\ c # d.attrs
          /\ ~RequiresNew(d.attrs, c)
          /\ Invoke("update", d.id, c, c)

\* A ForceNew field differs: the old resource is deleted first.
ApplyReplace ==
    /\ InState
    /\ \E c \in ApplyConfigs :
          /\ RequiresNew(d.attrs, c)
          /\ Invoke("delete", d.id, d.attrs, c)

\* The delete of a replacement succeeded: the create runs on fresh resource
\* data holding the declared configuration.
ApplyRecreate ==
    /\ prev.op = "delete"
    /\ prev.result = Ok
    /\ RequiresNew(d.attrs, prev.config)
    /\ Invoke("create", "", prev.config, prev.config)

NextApply ==
    \/ ApplyUpdate \/ ApplyReplace \/ ApplyRecreate
    \/ UpdGet \/ UpdPatch
    \/ DeleteCall \/ DeletePollStep
    \/ BuildContract \/ PostCall
    \/ ReadStep \/ ReadRequestTemplate \/ ReadSuccessTemplate
    \/ Return \/ Propagate \/ PropagateTemplates

SpecApply == InitApply /\ [][NextApply]_vars

(***************************************************************************)
(* A phone under changes of its declared name and state: updatePhone on an *)
(* existing phone that has no web RTC user.                                *)
(***************************************************************************)
PhoneConfigs ==
    {[DefaultAttrs EXCEPT !.name = n, !.state = st] :
        n \in Names, st \in {"active", "inactive"}}

InitPhone ==
    /\ InitCrud("phone", TRUE, DefaultAttrs, MaxOps)
    /\ InitExportIdle

UpdatePhone ==
    /\ InState
    /\ \E c \in PhoneConfigs :
          /\ c # d.attrs
          /\ Invoke("update", d.id, c, c)

NextPhone == UpdatePhone \/ PutCall \/ ReadStep \/ Return \/ OutOfBandDelete

SpecPhone == InitPhone /\ [][NextPhone]_vars

(***************************************************************************)
(* The lines of a phone: buildSdkLines and flattenPhoneLines.  A value of  *)
(* Go's interface{} carries its dynamic type: a string, a map, a pointer   *)
(* to another value, or nil.  A type assertion x.(map[string]interface{})  *)
(* panics unless the dynamic type of x is exactly the map type; a pointer  *)
(* to a map is not a map.                                                  *)
(***************************************************************************)
MaxLines == 3
LineAddresses == {"+1", "+2"}
LineBaseSettingsIds == {"lbs1", "lbs2"}
AddressLists == UNION {[1..n -> LineAddresses] : n \in 0..MaxLines}

GoNil == [t |-> "nil"]
GoString(s) == [t |-> "string", s |-> s]
GoMap(m) == [t |-> "map", m |-> m]
GoPtr(v) == [t |-> "ptr", v |-> v]

\* m[key] of a Go map: nil when the key is absent
Index(m, key) == IF key \in DOMAIN m THEN m[key] ELSE GoNil

PanicNilDeref == "invalid memory address or nil pointer dereference"
PanicConversion == "interface conversion"
Returned(list) == [panic |-> "", list |-> list]
Panicked(msg) == [panic |-> msg, list |-> <<>>]
NoOut == Returned(<<>>)

\* buildSdkLines(d, lineBaseSettings): d.GetOk("line_addresses") is not ok
\* for the empty list
buildSdkLines(lineAddresses, id) ==
    IF Len(lineAddresses) = 0
    THEN [lines |-> Some(<<[Name |-> "line_" \o id,
                            LineBaseSettings |-> id,
                            Properties |-> None]>>),
          isStandAlone |-> FALSE]
    ELSE [lines |-> Some([i \in 1..Len(lineAddresses) |->
                            [Name |-> "line_" \o id \o "_" \o ToString(i),
                             LineBaseSettings |-> id,
                             Properties |-> Some("station_identity_address" :>
                                 GoPtr(GoMap("value" :>
                                     GoPtr(GoMap("instance" :>
                                         GoString(lineAddresses[i]))))))]]),
          isStandAlone |-> TRUE]

\* A value after it was encoded to JSON and decoded into interface{}: a
\* pointer is encoded as what it points to, an object is decoded as a map.
RECURSIVE jsonValue(_)
jsonValue(v) ==
    CASE v.t = "ptr" -> jsonValue(v.v)
      [] v.t = "map" -> GoMap([k \in DOMAIN v.m |-> jsonValue(v.m[k])])
      [] OTHER -> v

\* The lines as a server that stores what it is sent returns them: a nil
\* Properties is left out of the body and is nil again in the answer.
jsonLines(lines) ==
    [i \in 1..Len(lines) |->
        [lines[i] EXCEPT !.Properties =
            IF IsNil(@) THEN None
            ELSE Some([k \in DOMAIN Deref(@) |-> jsonValue(Deref(@)[k])])]]

\* The address of one line as the loop body of flattenPhoneLines finds it,
\* or the panic it ends in
lineDid(line) ==
    IF IsNil(line.Properties) THEN Panicked(PanicNilDeref)
    ELSE LET k == Index(Deref(line.Properties), "station_identity_address")
         IN  IF k.t = "nil" THEN Returned("")
             ELSE IF k.t # "map" THEN Panicked(PanicConversion)
             ELSE LET value == Index(k.m, "value")
                  IN  IF value.t # "map" THEN Panicked(PanicConversion)
                      ELSE LET didI == Index(value.m, "instance")
                           IN  IF didI.t = "nil" THEN Returned("")
                               ELSE IF didI.t # "string"
                                    THEN Panicked(PanicConversion)
                                    ELSE Returned(didI.s)

\* flattenPhoneLines(lines)
flattenPhoneLines(lines) ==
    IF IsNil(lines) THEN Returned(<<>>)
    ELSE LET dids == [i \in 1..Len(Deref(lines)) |-> lineDid(Deref(lines)[i])]
             failed == {i \in DOMAIN dids : dids[i].panic # ""}
         IN  IF failed # {}
             THEN Panicked(dids[CHOOSE i \in failed : \A j \in failed : i <= j].panic)
             ELSE Returned([i \in 1..Len(SelectSeq(dids, LAMBDA x : x.list # "")) |->
                              SelectSeq(dids, LAMBDA x : x.list # "")[i].list])

InitLines ==
    /\ InitCrud("phone", FALSE, DefaultAttrs, 0)
    /\ listing = <<>>
    /\ exporter = IdleExporter
    /\ churn = FALSE
    /\ lookup = IdleLookup
    /\ \E a \in AddressLists, id \in LineBaseSettingsIds :
          calc = [stage |-> "declared", via |-> "", line_addresses |-> a,
                  lineBaseSettings |-> id, lines |-> None,
                  isStandAlone |-> FALSE, out |-> NoOut]

\* createPhone and updatePhone build the lines of the request
BuildLines ==
    /\ calc.stage = "declared"
    /\ LET built == buildSdkLines(calc.line_addresses, calc.lineBaseSettings)
       IN  calc' = [calc EXCEPT !.stage = "built", !.lines = built.lines,
                                !.isStandAlone = built.isStandAlone]
    /\ UNCHANGED <<crudVars, exportVars, lookup>>

\* The server stores the lines and returns them to a later GET
StoreLines ==
    /\ calc.stage = "built"
    /\ calc' = [calc EXCEPT !.stage = "stored",
                            !.lines = Some(jsonLines(Deref(calc.lines)))]
    /\ UNCHANGED <<crudVars, exportVars, lookup>>

\* flattenPhoneLines is applied: to the lines as built, or by readPhone to
\* the lines the server returned
FlattenLines ==
    /\ calc.stage \in {"built", "stored"}
    /\ calc' = [calc EXCEPT !.stage = "flat", !.via = calc.stage,
                            !.out = flattenPhoneLines(calc.lines)]
    /\ UNCHANGED <<crudVars, exportVars, lookup>>

NextLines == BuildLines \/ StoreLines \/ FlattenLines

SpecLines == InitLines /\ [][NextLines]_vars

(***************************************************************************)
(* The certificates of the generic identity provider: updateIdpGeneric     *)
(* sends them and readIdpGeneric maps the server's answer back.  The       *)
(* attribute is a set; the server's Genericsaml has a Certificate field    *)
(* for one certificate and a Certificates field for a list.                *)
(***************************************************************************)
MaxCerts == 3
CertPool == {"cert" \o ToString(i) : i \in 1..MaxCerts}
NoCertificates == [Certificate |-> None, Certificates |-> None]

\* What the server holds before the update
StoredBefore ==
    {NoCertificates,
     [Certificate |-> Some("cert1"), Certificates |-> None],
     [Certificate |-> None, Certificates |-> Some(<<"cert1", "cert2">>)]}

\* buildSdkStringList(d, "certificates"): the members of the set as a list,
\* in the order the set lists them; for the empty set nil or an empty list
buildSdkStringList(set) ==
    IF set = {} THEN {None, Some(<<>>)}
    ELSE {Some(list) : list \in {f \in [1..Cardinality(set) -> set] :
                                    \A c \in set : \E i \in DOMAIN f : f[i] = c}}

stringListToSet(list) == {list[i] : i \in DOMAIN list}

\* The certificate fields of the update body of updateIdpGeneric
updateIdpGeneric_certificates(certificates) ==
    IF IsNil(certificates) THEN NoCertificates
    ELSE IF Len(Deref(certificates)) = 1
         THEN [Certificate |-> Some(Deref(certificates)[1]),
               Certificates |-> None]
         ELSE [Certificate |-> None, Certificates |-> certificates]

\* readIdpGeneric reading the list field only
readIdpGeneric_certificates_listOnly(generic) ==
    IF ~IsNil(generic.Certificates)
    THEN stringListToSet(Deref(generic.Certificates))
    ELSE {}

\* The "certificates" attribute readIdpGeneric sets from the server's answer
readIdpGeneric_certificates(generic) ==
    IF ~IsNil(generic.Certificate)
    THEN stringListToSet(<<Deref(generic.Certificate)>>)
    ELSE IF ~IsNil(generic.Certificates)
         THEN stringListToSet(Deref(generic.Certificates))
         ELSE {}

InitCerts ==
    /\ InitCrud("idp", TRUE, DefaultAttrs, 0)
    /\ listing = <<>>
    /\ exporter = IdleExporter
    /\ churn = FALSE
    /\ lookup = IdleLookup
    /\ \E set \in SUBSET CertPool, before \in StoredBefore :
          calc = [stage |-> "declared", certificates |-> set,
                  before |-> before, stored |-> before, out |-> {}]

\* updateIdpGeneric builds the body and PUTs it; the server stores the body
PutCertificates ==
    /\ calc.stage = "declared"
    /\ \E certificates \in buildSdkStringList(calc.certificates) :
          calc' = [calc EXCEPT !.stage = "put",
                               !.stored = updateIdpGeneric_certificates(certificates)]
    /\ UNCHANGED <<crudVars, exportVars, lookup>>

\* the readIdpGeneric that ends updateIdpGeneric
ReadCertificates ==
    /\ calc.stage = "put"
    /\ calc' = [calc EXCEPT !.stage = "read",
                            !.out = readIdpGeneric_certificates(calc.stored)]
    /\ UNCHANGED <<crudVars, exportVars, lookup>>

NextCerts == PutCertificates \/ ReadCertificates

SpecCerts == InitCerts /\ [][NextCerts]_vars

(***************************************************************************)
(* The exporters getAllIntegrationActions, getAllCredentials and           *)
(* getAllPhones.  The server's collection is the sequence "listing"; page  *)
(* p of it holds the entities at positions (p-1)*PageSize+1 .. p*PageSize. *)
(* An identifier is a sequence of characters here, so that the prefix test *)
(* of getAllIntegrationActions is a test.                                  *)
(***************************************************************************)
\* Entities a listed page holds (the exporters ask for pages of 100).
PageSize == 2
\* Entities the collection can hold.
MaxEntities == 3

ExportKinds == {"action", "credential", "phone"}

Listed(id, name, state) == [id |-> id, name |-> name, state |-> state]

\* The entities a collection is made of, by entity type.  The name of a
\* queue or schedule group is a sequence of characters, so that the search
\* by name can match loosely.
EntityPool(k) ==
    CASE k = "action" ->
             {Listed(<<"s", "t", "a", "t", "i", "c", "-", "1">>, Some("n1"), "active"),
              Listed(<<"s", "t", "a", "t">>, Some("n2"), "active"),
              Listed(<<"a", "1">>, Some("n1"), "active"),
              Listed(<<"a", "2">>, Some("n2"), "active")}
      [] k = "credential" ->
             {Listed(<<"c", "1">>, Some("n1"), "active"),
              Listed(<<"c", "2">>, None, "active"),
              Listed(<<"c", "3">>, Some("n2"), "active"),
              Listed(<<"c", "4">>, None, "active")}
      [] k = "phone" ->
             {Listed(<<"p", "1">>, Some("n1"), "active"),
              Listed(<<"p", "2">>, Some("n2"), "deleted"),
              Listed(<<"p", "3">>, Some("n1"), "active"),
              Listed(<<"p", "4">>, Some("n2"), "deleted")}
      [] k = "oauth" ->
             {Listed(<<"o", "1">>, Some("n1"), "active"),
              Listed(<<"o", "2">>, Some("n2"), "disabled"),
              Listed(<<"o", "3">>, Some("n1"), "inactive"),
              Listed(<<"o", "4">>, Some("n2"), "deleted")}
      [] k \in {"queue", "schedulegroup"} ->
             {Listed(<<"g", "1">>, Some(<<"a">>), "active"),
              Listed(<<"g", "2">>, Some(<<"a", "b">>), "active"),
              Listed(<<"g", "3">>, Some(<<"a", "c">>), "active"),
              Listed(<<"g", "4">>, Some(<<"b">>), "active")}

Range(seq) == {seq[i] : i \in DOMAIN seq}

\* The collections of entity type k: no entity twice.
Listings(k) ==
    UNION {{l \in [1..n -> EntityPool(k)] :
               \A i, j \in 1..n : l[i] = l[j] => i = j} : n \in 0..MaxEntities}

Min(a, b) == IF a < b THEN a ELSE b

\* Answers to GET /<collection>?pageNumber=p&pageSize=n.
PageAnswers(l, pageNum, pageSize) ==
    {[status |-> "200", msg |-> "",
      entities |-> SubSeq(l, (pageNum - 1) * pageSize + 1,
                          Min(pageNum * pageSize, Len(l)))]}
        \cup {[status |-> "500", msg |-> m, entities |-> <<>>] : m \in FaultMsgs}

\* strings.HasPrefix
HasPrefix(str, prefix) ==
    Len(str) >= Len(prefix) /\ SubSeq(str, 1, Len(prefix)) = prefix

ResourceMeta(e) == [id |-> e.id, name |-> Deref(e.name)]

\* resources[id] = meta on a Go map: an entry of the same key is replaced.
MapPut(resources, meta) ==
    {r \in resources : r.id # meta.id} \cup {meta}

\* The loop body of each exporter over the entities of one page: whether
\* the entity goes into the result.
getAllIntegrationActions_keep(e) ==
    ~HasPrefix(e.id, <<"s", "t", "a", "t", "i", "c">>)

getAllCredentials_keep(e) == ~IsNil(e.name)

\* A faulty loop body that keeps phones in whatever state.
getAllPhones_keep_all(e) == TRUE

getAllPhones_keep(e) == e.state # "deleted"

\* A faulty loop body that keeps clients in whatever state.
getAllOAuthClients_keep_all(e) == TRUE

getAllOAuthClients_keep(e) == e.state # "disabled"

Keep(k, e) ==
    CASE k = "action" -> getAllIntegrationActions_keep(e)
      [] k = "credential" -> getAllCredentials_keep(e)
      [] k = "phone" -> getAllPhones_keep(e)
      [] k = "oauth" -> getAllOAuthClients_keep(e)

RECURSIVE AddPage(_, _, _)
AddPage(k, resources, entities) ==
    IF Len(entities) = 0 THEN resources
    ELSE AddPage(k,
                 IF Keep(k, Head(entities))
                 THEN MapPut(resources, ResourceMeta(Head(entities)))
                 ELSE resources,
                 Tail(entities))

InitExport ==
    /\ \E k \in ExportKinds :
          /\ InitCrud(k, FALSE, DefaultAttrs, 0)
          /\ listing \in Listings(k)
    /\ exporter = IdleExporter
    /\ churn = FALSE
    /\ lookup = IdleLookup
    /\ calc = IdleCalc

\* The exporter is called.
ExportStart ==
    /\ exporter.status = "idle"
    /\ exporter' = [IdleExporter EXCEPT !.status = "paging", !.pageNum = 1]
    /\ UNCHANGED <<listing, churn>>
    /\ UNCHANGED crudVars
    /\ UNCHANGED <<lookup, calc>>

\* A faulty exporter that returns what it has when a page fails.
ExportPage_partial ==
    /\ kind \in ExportKinds
    /\ exporter.status = "paging"
    /\ \E resp \in PageAnswers(listing, exporter.pageNum, PageSize) :
          exporter' =
              IF resp.status # "200"
              THEN [exporter EXCEPT !.status = "failed", !.msg = resp.msg,
                                    !.failedAt = exporter.pageNum]
              ELSE IF Len(resp.entities) = 0
              THEN [exporter EXCEPT !.status = "done",
                                    !.lens = Append(@, 0)]
              ELSE [exporter EXCEPT
                      !.resources = AddPage(kind, @, resp.entities),
                      !.pages = @ \cup Range(resp.entities),
                      !.lens = Append(@, Len(resp.entities)),
                      !.pageNum = @ + 1]
    /\ UNCHANGED <<listing, churn>>
    /\ UNCHANGED crudVars
    /\ UNCHANGED <<lookup, calc>>

\* One round of the exporter's loop: get a page, return on an error, leave
\* the loop on an empty page, else take the page's entities in.
ExportPage ==
    /\ kind \in ExportKinds
    /\ exporter.status = "paging"
    /\ \E resp \in PageAnswers(listing, exporter.pageNum, PageSize) :
          exporter' =
              IF resp.status # "200"
              THEN [exporter EXCEPT !.status = "failed", !.msg = resp.msg,
                                    !.failedAt = exporter.pageNum,
                                    !.resources = {}]
              ELSE IF Len(resp.entities) = 0
              THEN [exporter EXCEPT !.status = "done",
                                    !.lens = Append(@, 0)]
              ELSE [exporter EXCEPT
                      !.resources = AddPage(kind, @, resp.entities),
                      !.pages = @ \cup Range(resp.entities),
                      !.lens = Append(@, Len(resp.entities)),
                      !.pageNum = @ + 1]
    /\ UNCHANGED <<listing, churn>>
    /\ UNCHANGED crudVars
    /\ UNCHANGED <<lookup, calc>>

RemoveAt(seq, i) == SubSeq(seq, 1, i - 1) \o SubSeq(seq, i + 1, Len(seq))
InsertAt(seq, i, e) == SubSeq(seq, 1, i - 1) \o <<e>> \o SubSeq(seq, i, Len(seq))

\* Somebody removes an entity from the collection while the exporter pages.
ChurnRemove ==
    /\ exporter.status = "paging"
    /\ \E i \in DOMAIN listing : listing' = RemoveAt(listing, i)
    /\ churn' = TRUE
    /\ UNCHANGED exporter
    /\ UNCHANGED crudVars
    /\ UNCHANGED <<lookup, calc>>

\* Somebody adds an entity to the collection while the exporter pages.
ChurnAdd ==
    /\ exporter.status = "paging"
    /\ Len(listing) < MaxEntities
    /\ \E e \in EntityPool(kind) \ Range(listing), i \in 1..(Len(listing) + 1) :
          listing' = InsertAt(listing, i, e)
    /\ churn' = TRUE
    /\ UNCHANGED exporter
    /\ UNCHANGED crudVars
    /\ UNCHANGED <<lookup, calc>>

NextExport == ExportStart \/ ExportPage \/ ChurnRemove \/ ChurnAdd

SpecExport == InitExport /\ [][NextExport]_vars

(***************************************************************************)
(* getAllOAuthClients: the one exporter that asks for no pages; the server *)
(* answers its one call with the whole collection.                         *)
(***************************************************************************)
AllExportKinds == ExportKinds \cup {"oauth"}

ClientsAnswers(l) ==
    {[status |-> "200", msg |-> "", entities |-> l]}
        \cup {[status |-> "500", msg |-> m, entities |-> <<>>] : m \in FaultMsgs}

ExportOAuthClients ==
    /\ kind = "oauth"
    /\ exporter.status = "paging"
    /\ \E resp \in ClientsAnswers(listing) :
          exporter' =
              IF resp.status # "200"
              THEN [exporter EXCEPT !.status = "failed", !.msg = resp.msg,
                                    !.failedAt = exporter.pageNum,
                                    !.resources = {}]
              ELSE [exporter EXCEPT
                      !.status = "done",
                      !.resources = AddPage(kind, @, resp.entities),
                      !.pages = @ \cup Range(resp.entities),
                      !.lens = Append(@, Len(resp.entities))]
    /\ UNCHANGED <<listing, churn>>
    /\ UNCHANGED crudVars
    /\ UNCHANGED <<lookup, calc>>

InitExportAll ==
    /\ \E k \in AllExportKinds :
          /\ InitCrud(k, FALSE, DefaultAttrs, 0)
          /\ listing \in Listings(k)
    /\ exporter = IdleExporter
    /\ churn = FALSE
    /\ lookup = IdleLookup
    /\ calc = IdleCalc

NextExportAll ==
    ExportStart \/ ExportPage \/ ExportOAuthClients \/ ChurnRemove \/ ChurnAdd

SpecExportAll == InitExportAll /\ [][NextExportAll]_vars

(***************************************************************************)
(* The data sources dataSourceRoutingQueueRead and                         *)
(* dataSourceScheduleGroupRead: the lookup of an identifier by name.  The  *)
(* vendor's search index is the sequence "listing"; a search by name       *)
(* matches loosely, every entity whose name begins with the requested one, *)
(* and an entity created a moment ago may not be indexed yet.              *)
(***************************************************************************)
LookupKinds == {"queue", "schedulegroup"}
LookupNames == {<<"a">>, <<"a", "b">>, <<"b">>, <<"c">>}

\* The deadline of the withRetries of both data sources, in seconds.
LookupTimeout == 15

RECURSIVE Select(_, _)
Select(l, name) ==
    IF l = <<>> THEN <<>>
    ELSE IF Head(l).name # None /\ HasPrefix(Deref(Head(l).name), name)
    THEN <<Head(l)>> \o Select(Tail(l), name)
    ELSE Select(Tail(l), name)

\* Answers to GET /<collection>?pageNumber=p&pageSize=n&name=<name>.
SearchAnswers(l, pageNum, pageSize, name) ==
    PageAnswers(Select(l, name), pageNum, pageSize)

\* What one round of a data source's closure does: Return(r, id) returns r
\* after setting the identifier to id when id is not empty, NextPage goes
\* round the loop again.
Returns(r, id) == [next |-> FALSE, r |-> r, id |-> id]
NextPage == [next |-> TRUE, r |-> RetryNil, id |-> <<>>]

queueMatches_anyName(queue, name) == queue.name # None

queueMatches(queue, name) == queue.name # None /\ Deref(queue.name) = name

\* The first entity of a page that queueMatches, if any.
RECURSIVE FirstMatch(_, _)
FirstMatch(entities, name) ==
    IF entities = <<>> THEN None
    ELSE IF queueMatches(Head(entities), name) THEN Some(Head(entities))
    ELSE FirstMatch(Tail(entities), name)

dataSourceRoutingQueueRead_round(resp, name) ==
    IF resp.status # "200" THEN Returns(NonRetryableError(resp.msg), <<>>)
    ELSE IF Len(resp.entities) = 0
    THEN Returns(RetryableError("No routing queues found"), <<>>)
    ELSE LET queue == FirstMatch(resp.entities, name)
         IN IF queue # None THEN Returns(RetryNil, Deref(queue).id)
            ELSE NextPage

dataSourceScheduleGroupRead_round(resp, name) ==
    IF resp.status # "200" THEN Returns(NonRetryableError(resp.msg), <<>>)
    ELSE IF Len(resp.entities) = 0
    THEN Returns(RetryableError("No schedule groups found"), <<>>)
    ELSE Returns(RetryNil, resp.entities[1].id)

InitLookup ==
    /\ \E k \in LookupKinds :
          /\ InitCrud(k, FALSE, DefaultAttrs, 0)
          /\ listing \in Listings(k)
    /\ exporter = IdleExporter
    /\ churn = FALSE
    /\ \E n \in LookupNames : lookup = [IdleLookup EXCEPT !.name = n]
    /\ calc = IdleCalc

\* The data source is read.
LookupStart ==
    /\ kind \in LookupKinds
    /\ lookup.status = "idle"
    /\ lookup' = [lookup EXCEPT !.status = "searching", !.pageNum = 1]
    /\ UNCHANGED <<listing, exporter, churn, calc>>
    /\ UNCHANGED crudVars

\* One round of the closure: get a page and scan it.  When the closure
\* returns, withRetries ends the read or, after PollInterval, calls the
\* closure again.
LookupRound ==
    /\ kind \in LookupKinds
    /\ lookup.status = "searching"
    /\ \E resp \in SearchAnswers(listing, lookup.pageNum, PageSize, lookup.name) :
          LET round == IF kind = "queue"
                       THEN dataSourceRoutingQueueRead_round(resp, lookup.name)
                       ELSE dataSourceScheduleGroupRead_round(resp, lookup.name)
              seen == [lookup EXCEPT
                         !.pages = @ \cup Range(resp.entities),
                         !.asked = Append(@, [page |-> lookup.pageNum,
                                              status |-> resp.status,
                                              len |-> Len(resp.entities)])]
              w == withRetries(inp.ctx, round.r, lookup.secs, LookupTimeout)
          IN lookup' =
                 IF round.next THEN [seen EXCEPT !.pageNum = @ + 1]
                 ELSE IF w.next = "again"
                 THEN [seen EXCEPT !.pageNum = 1, !.secs = @ + PollInterval]
                 ELSE IF w.result = Ok
                 THEN [seen EXCEPT !.status = "done", !.id = round.id]
                 ELSE [seen EXCEPT !.status = "failed", !.msg = w.result.msg]
    /\ UNCHANGED <<listing, exporter, churn, calc>>
    /\ UNCHANGED crudVars

\* The search index catches up with an entity created a moment ago.
Indexed ==
    /\ kind \in LookupKinds
    /\ lookup.status = "searching"
    /\ Len(listing) < MaxEntities
    /\ \E e \in EntityPool(kind) \ Range(listing), i \in 1..(Len(listing) + 1) :
          listing' = InsertAt(listing, i, e)
    /\ UNCHANGED <<exporter, churn, lookup, calc>>
    /\ UNCHANGED crudVars

NextLookup == LookupStart \/ LookupRound \/ Indexed

SpecLookup == InitLookup /\ [][NextLookup]_vars

(***************************************************************************)
(* Cancellation.  The orchestrator may cancel the context of an operation  *)
(* that is in a polling loop: the confirmation poll of a delete, the poll  *)
(* for the station of a phone's user, the read-back of a create, the       *)
(* lookup of a data source.                                                *)
(***************************************************************************)
InPoll ==
    \/ pc \in {"poll", "stations"}
    \/ op = "create" /\ pc \in {"get", "get_requesttemplate", "get_successtemplate"}
    \/ lookup.status = "searching"

Cancel ==
    /\ inp.ctx = "live"
    /\ InPoll
    /\ inp' = [inp EXCEPT !.ctx = "cancelled",
                          !.cancelAt = IF kind \in LookupKinds
                                       THEN Len(lookup.asked) ELSE Len(calls)]
    /\ UNCHANGED <<kind, op, pc, d, loc, secs, result, calls, prev, opsLeft,
                   srv, stations, listing, exporter, churn, lookup, calc>>

InitCancel == Init \/ InitLookup

NextCancel == Next \/ NextLookup \/ Cancel

SpecCancel == InitCancel /\ [][NextCancel]_vars

(***************************************************************************)
(* Properties.                                                             *)
(***************************************************************************)
LastCall == calls[Len(calls)]
Finished(o) == op = o /\ pc = "done"
\* The GET showed an entity that is neither gone nor in state "deleted".
ShowedLive(c) == c.status = "200" /\ c.seen # "deleted"
\* The GET showed that the entity no longer exists.
ShowedGone(c) ==
    \/ c.status = "404"
    \/ kind \in SoftDeleteKinds /\ c.status = "200" /\ c.seen = "deleted"
AcceptedDelete(i) ==
    i \in DOMAIN calls /\ calls[i].verb = "DELETE" /\ calls[i].status = "200"

\* C1: a delete returns success only if its DELETE call was accepted and a
\* later GET of the same operation, the most recent one, returned 404 (or,
\* for a phone or an OAuth client, the entity in state "deleted").
C1_DeleteConfirmed ==
    Finished("delete") /\ result = Ok =>
        /\ \E i \in 1..(Len(calls) - 1) : AcceptedDelete(i)
        /\ LastCall.verb = "GET"
        /\ ShowedGone(LastCall)
        /\ ~ShowedLive(LastCall)

C1_Witness ==
    /\ Finished("delete") /\ result = Ok
    /\ \E i \in 1..(Len(calls) - 2) :
          AcceptedDelete(i) /\ ShowedLive(calls[i + 1])

\* C2: when every poll after an accepted DELETE still shows the entity, the
\* delete ends with a retry-exhausted failure at the deadline: it is never
\* polling at or past the deadline, it is never stuck in the poll, and it
\* ends neither earlier nor with success.
C2_DeleteDeadline ==
    /\ op = "delete" /\ pc = "poll" =>
          secs < DeleteTimeout /\ ENABLED DeletePollStep
    /\ Finished("delete")
         /\ (\E i \in DOMAIN calls :
                /\ AcceptedDelete(i)
                /\ \A j \in (i + 1)..Len(calls) : ShowedLive(calls[j]))
       => /\ result.status = "retry_exhausted"
          /\ secs + PollInterval >= DeleteTimeout

C2_Witness ==
    /\ Finished("delete") /\ result.status = "retry_exhausted"
    /\ \E i \in DOMAIN calls : AcceptedDelete(i) /\ Len(calls) >= i + 3

\* C3: when the PATCH of updateIntegrationAction is rejected for a stale
\* version and nothing else fails, the update re-reads the action, retries
\* the PATCH and succeeds after exactly one such cycle.
C3_StaleVersionRetried ==
    kind = "action" /\ Finished("update")
        /\ (\E i \in DOMAIN calls : calls[i].verb = "PATCH" /\ calls[i].status = "409")
        /\ (\A i \in DOMAIN calls : calls[i].status = "200" \/ calls[i].verb = "PATCH")
    => /\ result = Ok
       /\ Cardinality({i \in DOMAIN calls : calls[i].verb = "PATCH"}) = 2

\* C4: in the read after a create a not-found is only ever transient: a
\* create that ends on a 404 of its read has failed as retry-exhausted and
\* has kept the identifier in state.
C4_ReadBackNotFoundTransient ==
    Finished("create") /\ Len(calls) > 0
        /\ LastCall.verb \in {"GET", "GET_TEMPLATE"} /\ LastCall.status = "404"
    => result.status = "retry_exhausted" /\ d.id # ""

\* C5: a routine read that gets 404 clears the identifier and returns
\* without error.
C5_RoutineReadNotFound ==
    Finished("read") /\ LastCall.status = "404" => d.id = "" /\ result = Ok

C5_Witness ==
    /\ Finished("read") /\ LastCall.verb = "GET" /\ LastCall.status = "404"
    /\ d.id = "" /\ result = Ok

\* C6: deleteOAuthClient issues its DELETE only after a PUT carrying state
\* "inactive" succeeded and the read after it completed; a failed PUT ends
\* the delete with the PUT's error and without a DELETE.
C6_InactiveBeforeDelete ==
    kind = "oauth" /\ op = "delete" =>
        /\ \A i \in DOMAIN calls : calls[i].verb = "DELETE" =>
              /\ \E j \in 1..(i - 2) :
                    /\ calls[j].verb = "PUT"
                    /\ calls[j].status = "200"
                    /\ calls[j].arg = Some("inactive")
                    /\ \A k \in (j + 1)..(i - 1) : calls[k].verb = "GET"
              /\ calls[i - 1].status \in {"200", "404"}
        /\ \A j \in DOMAIN calls : calls[j].verb = "PUT" /\ calls[j].status # "200" =>
              /\ j = Len(calls)
              /\ pc = "done"
              /\ result = Failed(calls[j].msg)

C6_Witness ==
    kind = "oauth" /\ op = "delete" /\ \E i \in DOMAIN calls : AcceptedDelete(i)

\* C8: a read right after a successful delete reports the entity as not
\* found (it clears the identifier).
C8_ReadAfterDeleteNotFound ==
    prev.op = "delete" /\ prev.result = Ok /\ Finished("read") /\ result = Ok
    => d.id = ""

\* C10: an error other than not-found that the server returns to a read, an
\* update, a delete call or a delete confirmation poll is the last call of
\* the operation, which has failed with the server's message.
C10_ErrorsEndOperation ==
    \A i \in DOMAIN calls :
        /\ calls[i].verb \in {"GET", "GET_TEMPLATE", "PUT", "PATCH", "DELETE"}
        /\ calls[i].status \notin {"200", "404"}
        => /\ i = Len(calls)
           /\ pc = "done"
           /\ result = Failed(calls[i].msg)

C10_Witness ==
    /\ Finished("delete") /\ Len(calls) >= 3
    /\ LastCall.verb = "GET" /\ LastCall.status = "500"
    /\ result = Failed(LastCall.msg)

\* C9: after a successful create of an integration action from configuration
\* c the state agrees with c on name, category, integration_id, secure,
\* request_url_template, request_type, headers and, where c declares a
\* config_response block, both translation maps; a request_type of GET reads
\* back as GET.
C9_RoundTrip ==
    kind = "action" /\ Finished("create") /\ result = Ok =>
        LET c == inp.config
            s == d.attrs
        IN /\ s.name = c.name
           /\ s.category = c.category
           /\ s.integration_id = c.integration_id
           /\ s.secure = c.secure
           /\ Len(s.config_request) = 1
           /\ s.config_request[1].request_url_template
                 = c.config_request[1].request_url_template
           /\ s.config_request[1].request_type = c.config_request[1].request_type
           /\ s.config_request[1].headers = c.config_request[1].headers
           /\ Len(c.config_response) = 1 =>
                 /\ Len(s.config_response) = 1
                 /\ s.config_response[1].translation_map
                       = c.config_response[1].translation_map
                 /\ s.config_response[1].translation_map_defaults
                       = c.config_response[1].translation_map_defaults

C9_Witness ==
    /\ kind = "action" /\ Finished("create") /\ result = Ok /\ d.id # ""
    /\ LastCall.verb = "GET_TEMPLATE" /\ LastCall.status = "200"
    /\ inp.config.contract_input = "{ }"
    /\ inp.config.secure
    /\ d.attrs.config_request[1].request_type = "GET"
    /\ d.attrs.config_request[1].headers # {}
    /\ Len(inp.config.config_response) = 1
    /\ d.attrs.config_response[1].translation_map # {}

\* The entities the exporter of the entity type leaves out by design:
\* static integration actions, credentials without a name, deleted phones.
Excluded(e) ==
    \/ kind = "action" /\ Len(e.id) >= 6 /\ SubSeq(e.id, 1, 6) = <<"s", "t", "a", "t", "i", "c">>
    \/ kind = "credential" /\ e.name = None
    \/ kind = "phone" /\ e.state = "deleted"

Exported == {r.id : r \in exporter.resources}

\* C7 as stated: with no entity added or removed while it paged, an exporter
\* returns every entity of every page, each once.
C7_ExportUnionOfPages ==
    exporter.status = "done" /\ ~churn =>
        /\ Exported = {e.id : e \in exporter.pages}
        /\ Cardinality(exporter.resources) = Cardinality(Exported)

\* C7: with no entity added or removed while it paged, an exporter returns
\* the entities of all pages, which are those of the collection, except the
\* ones it leaves out by design (static actions, nameless credentials,
\* deleted phones), each once and under its name.
C7_ExportAllButExcluded ==
    exporter.status = "done" /\ ~churn =>
        /\ exporter.pages = Range(listing)
        /\ exporter.resources =
              {[id |-> e.id, name |-> e.name[1]] :
                  e \in {x \in exporter.pages : ~Excluded(x)}}
        /\ Cardinality(exporter.resources) = Cardinality(Exported)

C7_Witness ==
    /\ exporter.status = "done" /\ ~churn
    /\ exporter.pageNum = 3
    /\ \E e \in exporter.pages : Excluded(e)
    /\ exporter.resources # {}

\* The calls that change the server when they are answered 200.
MutatingVerbs == {"POST", "PUT", "PATCH", "DELETE", "PUT_STATION"}

\* C11: a create, update or delete that returned an error has changed
\* nothing: none of its mutating calls was accepted by the server, and a
\* failed create has recorded no identifier.
C11_AllOrNothing ==
    op \in {"create", "update", "delete"} /\ pc = "done" /\ result # Ok =>
        /\ \A i \in DOMAIN calls :
              calls[i].verb \in MutatingVerbs => calls[i].status # "200"
        /\ op = "create" => d.id = ""

\* C12: a read of a phone or an OAuth client that is answered with the
\* entity in state "deleted" treats it like a 404: the entity is not kept
\* in state.
C12_DeletedStateIsGone ==
    /\ kind \in SoftDeleteKinds /\ op = "read" /\ pc = "done"
    /\ LastCall.verb = "GET" /\ LastCall.status = "200"
    /\ LastCall.seen = "deleted"
    => d.id = ""

\* C13: a paginated exporter asks for no page after one that held fewer
\* entities than the page size: every page but the last it got was full.
C13_StopsAtShortPage ==
    kind \in ExportKinds =>
        \A i \in 1..(Len(exporter.lens) - 1) : exporter.lens[i] = PageSize

\* The system-owned and terminal entities: static integration actions,
\* OAuth clients disabled by support, deleted phones.
SystemOwned(e) ==
    \/ kind = "action" /\ Len(e.id) >= 6
         /\ SubSeq(e.id, 1, 6) = <<"s", "t", "a", "t", "i", "c">>
    \/ kind = "oauth" /\ e.state = "disabled"
    \/ kind = "phone" /\ e.state = "deleted"

\* C14: the result of an exporter holds no static integration action, no
\* disabled OAuth client and no deleted phone, and it holds every other
\* entity of the pages that has a name.
C14_NoSystemOwnedExported ==
    exporter.status = "done" =>
        /\ \A e \in exporter.pages : SystemOwned(e) => e.id \notin Exported
        /\ \A e \in exporter.pages :
              ~SystemOwned(e) /\ e.name # None =>
                  [id |-> e.id, name |-> e.name[1]] \in exporter.resources

C14_Witness ==
    /\ kind = "oauth" /\ exporter.status = "done"
    /\ \E e \in exporter.pages : SystemOwned(e)
    /\ \E e \in exporter.pages : e.state = "deleted" /\ e.id \in Exported

Patches == {i \in DOMAIN calls : calls[i].verb = "PATCH"}

\* C15: updateIntegrationAction issues a bounded number of PATCHes, is
\* never stuck between them, and when every PATCH it issued was rejected
\* with a version mismatch it has returned an error.
C15_VersionRetryBounded ==
    kind = "action" /\ op = "update" =>
        /\ Cardinality(Patches) <= RetryWhenAttempts
        /\ pc = "upd_get" => ENABLED UpdGet
        /\ pc = "upd_patch" => ENABLED UpdPatch
        /\ pc = "done" /\ Patches # {}
             /\ (\A i \in Patches : calls[i].status = "409")
           => result.status \in {"failed", "retry_exhausted"}

C15_Witness ==
    /\ kind = "action" /\ Finished("update")
    /\ LastCall.verb = "PATCH" /\ LastCall.status = "409"
    /\ result.status = "failed"

\* The create call of a create: the POST or, for the generic identity
\* provider, the PUT.
CreateCalls ==
    {i \in DOMAIN calls :
        calls[i].verb = "POST" \/ (kind = "idp" /\ calls[i].verb = "PUT")}

\* C16: once the create call succeeded the state holds the identifier the
\* server returned, every GET of the read after it is keyed by it, and a
\* create that returned success has left it in state; a create call that
\* failed is the last call and no identifier is recorded.
C16_CreatedIdRecorded ==
    op = "create" =>
        \A i \in CreateCalls :
            IF calls[i].status = "200"
            THEN /\ \A j \in (i + 1)..Len(calls) :
                       calls[j].verb \in {"GET", "GET_TEMPLATE"}
                           => calls[j].id = srv.id
                 /\ (pc # "done" \/ result = Ok) => d.id = srv.id /\ d.id # ""
            ELSE i = Len(calls) /\ d.id = ""

KeyedVerbs == {"GET", "GET_TEMPLATE", "PUT", "PATCH", "DELETE"}

\* C17: the identifier in state is one the server assigned; an update and a
\* successful read leave it as it is; every GET, update and delete call of
\* an operation on the entity is keyed by it.
C17_ServerAssignedKey ==
    /\ d.id # "" => d.id \in ServerIds
    /\ op \in {"read", "update", "delete"} =>
          \A i \in DOMAIN calls :
              calls[i].verb \in KeyedVerbs => calls[i].id = inp.id
    /\ op = "update" \/ (op = "read" /\ pc = "done" /\ result = Ok) =>
          d.id = inp.id

\* The fields of an integration action the schema marks ForceNew, as the
\* server holds them and as a configuration declares them.
ImmutableOf(body) == <<body.IntegrationId, body.Secure, body.Contract>>
DeclaredImmutable(a) ==
    ImmutableOf(IntegrationAction(a, buildSdkActionContract(a).contract))

\* C18: a change to integration_id, secure, contract_input or
\* contract_output of an integration action is never applied in place.  The
\* update request carries only name, category, version and config; the
\* entity under the original identifier keeps the immutable fields it was
\* created with; an update runs only for a configuration whose immutable
\* fields are the server's; and a create that follows the delete of a
\* replacement ends with a new identifier under which the server holds the
\* declared immutable fields.
C18_ImmutableNeverInPlace ==
    /\ DOMAIN Updateactioninput(inp.config, Some(srv.version))
          = {"Name", "Category", "Version", "Config"}
    /\ srv.id = LiveServer("action").id =>
          ImmutableOf(srv.body) = ImmutableOf(LiveServer("action").body)
    /\ op = "update" /\ Visible(srv) =>
          DeclaredImmutable(inp.config) = ImmutableOf(srv.body)
    /\ op = "delete" => RequiresNew(d.attrs, inp.config)
    /\ Finished("create") /\ result = Ok /\ d.id # "" =>
          /\ prev.op = "delete" /\ d.id # prev.id
          /\ srv.id = d.id
          /\ ImmutableOf(srv.body) = DeclaredImmutable(inp.config)

\* A replacement ran to its end: the create after the delete succeeded for
\* a configuration whose immutable fields differ from the original's.
C18_Witness ==
    /\ Finished("create") /\ result = Ok /\ d.id # ""
    /\ prev.op = "delete" /\ prev.result = Ok
    /\ RequiresNew(DefaultAttrs, inp.config)
    /\ \E i \in DOMAIN calls : calls[i].verb = "POST" /\ calls[i].status = "200"

\* The entities of the pages the data source got that bear the requested
\* name.
ExactlyNamed == {e \in lookup.pages : e.name = Some(lookup.name)}

\* C19: dataSourceRoutingQueueRead sets the identifier only to the id of a
\* queue whose name equals the requested name, and succeeds only so.  It
\* asks for page 1 first, for the next page after a page without such a
\* queue and for page 1 again after an empty page, never stops while it
\* searches, and when it fails it has set no identifier and returns an
\* error; a failure that is not the server's error comes when the deadline
\* of 15 seconds is reached, no page having held a queue of that name.
C19_QueueByExactName ==
    kind = "queue" =>
        /\ lookup.id # <<>> => \E e \in ExactlyNamed : e.id = lookup.id
        /\ lookup.status = "done" => lookup.id # <<>>
        /\ lookup.status = "searching" => ENABLED LookupRound
        /\ \A i \in DOMAIN lookup.asked :
              lookup.asked[i].page =
                  IF i = 1 \/ lookup.asked[i - 1].len = 0 THEN 1
                  ELSE lookup.asked[i - 1].page + 1
        /\ lookup.status = "failed" =>
              /\ lookup.id = <<>>
              /\ lookup.msg # ""
              /\ lookup.asked[Len(lookup.asked)].status = "200" =>
                    /\ lookup.secs > 0
                    /\ lookup.secs + PollInterval >= LookupTimeout
                    /\ ExactlyNamed = {}

\* The search for a queue went to a second page, was retried and failed at
\* the deadline, the pages holding only queues of other names.
C19_Witness ==
    /\ kind = "queue"
    /\ lookup.status = "failed"
    /\ lookup.asked[Len(lookup.asked)].status = "200"
    /\ lookup.pages # {}
    /\ \E i \in DOMAIN lookup.asked : lookup.asked[i].page = 2
    /\ \E i \in DOMAIN lookup.asked :
          i > 1 /\ lookup.asked[i].page = 1 /\ lookup.asked[i].len > 0

\* C20: whenever dataSourceScheduleGroupRead succeeds, the identifier it
\* set is that of a schedule group whose name equals the requested name.
C20_ScheduleGroupByName ==
    kind = "schedulegroup" /\ lookup.status = "done" =>
        \E e \in ExactlyNamed : e.id = lookup.id

\* C21: the PATCH of updateIntegrationAction carries the version the GET of
\* the same attempt returned, which is the server's at that GET; when the
\* server's version has moved on since, through an out-of-band write, the
\* PATCH is not accepted and leaves the server's entity as the writer left
\* it.
C21_StaleWriteRejected ==
    [][/\ pc = "upd_get" /\ pc' = "upd_patch" =>
              loc'.ent.version = srv.version
       /\ pc = "upd_patch" /\ calls' # calls =>
              /\ calls'[Len(calls')].verb = "PATCH"
              /\ calls[Len(calls)].verb = "GET"
              /\ calls'[Len(calls')].arg = Some(loc.ent.version)
              /\ loc.ent.version # srv.version =>
                    calls'[Len(calls')].status # "200" /\ srv' = srv]_vars

\* A PATCH was rejected for its version, the server's having moved on after
\* the GET of the attempt.
C21_Witness ==
    /\ op = "update" /\ kind = "action"
    /\ Len(calls) >= 2
    /\ LastCall.verb = "PATCH" /\ LastCall.status = "409"
    /\ calls[Len(calls) - 1].verb = "GET" /\ calls[Len(calls) - 1].status = "200"
    /\ LastCall.arg # Some(srv.version)

\* The requests made since the context was cancelled that begin an attempt
\* of the polling loop.
AttemptsSinceCancel ==
    IF kind \in LookupKinds
    THEN {i \in DOMAIN lookup.asked : i > inp.cancelAt /\ lookup.asked[i].page = 1}
    ELSE {i \in DOMAIN calls :
             i > inp.cancelAt /\ calls[i].verb \in {"GET", "GET_STATIONS"}}

GrantsAsDeclared(roleDivisions) ==
    IF Len(inp.roles) = 0 THEN roleDivisions = None
    ELSE /\ roleDivisions # None
         /\ Len(Deref(roleDivisions)) = Len(inp.roles)
         /\ \A i \in DOMAIN inp.roles :
               LET grant == Deref(roleDivisions)[i]
               IN /\ grant.RoleId = inp.roles[i].role_id
                  /\ grant.DivisionId # ""
                  /\ grant.DivisionId =
                        IF inp.roles[i].division_id # ""
                        THEN inp.roles[i].division_id
                        ELSE (CHOOSE r \in HomeAnswers : ~IsErr(r)).ent.id

\* C23: the request createOAuthClient and updateOAuthClient are about to
\* send, and the one the server took in, carries for every configured role
\* a grant with a non-empty division: the configured one, else the home
\* division.  When the home division could not be obtained the operation
\* has failed and sent neither a create nor an update call.
C23_GrantsCarryDivision ==
    kind = "oauth" /\ op \in {"create", "update"} =>
        /\ pc = "post" => GrantsAsDeclared(PostBody(kind, d.attrs, loc).RoleDivisions)
        /\ pc = "put" => GrantsAsDeclared(PutBody(kind, d.attrs, loc).RoleDivisions)
        /\ (\E i \in DOMAIN calls :
                calls[i].verb \in {"POST", "PUT"} /\ calls[i].status = "200")
               => GrantsAsDeclared(srv.body.RoleDivisions)
        /\ (\E i \in DOMAIN calls :
                calls[i].verb = "GET_HOME" /\ calls[i].status # "200")
               => /\ pc = "done" /\ result.status = "failed"
                  /\ \A i \in DOMAIN calls : calls[i].verb \notin {"POST", "PUT"}

\* The server took in a client whose configured role names no division.
C23_Witness ==
    /\ kind = "oauth" /\ op \in {"create", "update"}
    /\ \E i \in DOMAIN inp.roles : inp.roles[i].division_id = ""
    /\ \E i \in DOMAIN calls : calls[i].verb = "GET_HOME" /\ calls[i].status = "200"
    /\ LastCall.verb \in {"POST", "PUT"} /\ LastCall.status = "200"

StationPolls == {i \in DOMAIN calls : calls[i].verb = "GET_STATIONS"}
Assignments == {i \in DOMAIN calls : calls[i].verb = "PUT_STATION"}

\* C24: the default-station assignment is called only right after a
\* listing of the user's stations that succeeded and was not empty, with
\* the station of that listing.  While the station is polled for or
\* assigned nothing has failed yet; an operation that polled for the
\* station and made no assignment has failed, and when no station was
\* visible and no call failed, it failed at the deadline of 15 seconds.
C24_AssignOnlyListedStation ==
    kind = "phone" =>
        /\ \A i \in Assignments :
              /\ calls[i].id # ""
              /\ stations.visible /\ calls[i].id = "station"
              /\ i - 1 \in StationPolls /\ calls[i - 1].status = "200"
        /\ pc = "assign" => loc.stationId # ""
        /\ pc = "done" /\ StationPolls # {} /\ Assignments = {} =>
              /\ result.status \in {"failed", "retry_exhausted"}
              /\ (\A i \in StationPolls : calls[i].status = "200") =>
                    /\ result.status = "retry_exhausted"
                    /\ secs + PollInterval >= StationTimeout
                    /\ Cardinality(StationPolls) > 1

\* createPhone polled for the station of its user until the deadline, no
\* station showed, and it returned the failure without an assignment.
C24_Witness ==
    /\ kind = "phone" /\ op = "create" /\ pc = "done"
    /\ ~stations.visible
    /\ StationPolls # {} /\ Assignments = {}
    /\ \A i \in StationPolls : calls[i].status = "200"
    /\ result.status = "retry_exhausted"

\* C25: a paginated exporter one of whose page requests failed has ended
\* with an error and an empty resource map, whatever the pages before held;
\* it ends without an error only when no page request failed.
C25_NoPartialExport ==
    kind \in ExportKinds =>
        /\ exporter.failedAt # 0 <=> exporter.status = "failed"
        /\ exporter.status = "failed" =>
              exporter.resources = {} /\ exporter.msg \in FaultMsgs
        /\ exporter.status \in {"paging", "done"} => exporter.msg = ""

\* The request for a later page failed after a page that held an entity
\* the exporter keeps.
C25_Witness ==
    /\ kind \in ExportKinds
    /\ exporter.status = "failed" /\ exporter.failedAt > 1
    /\ \E e \in exporter.pages : Keep(kind, e) /\ e.name # None
    /\ exporter.resources = {}

\* The last three calls of a history are the GET of the action and the GETs
\* of its two templates, all three answered with success.
ThreeGetsSucceeded(cs) ==
    /\ Len(cs) >= 3
    /\ cs[Len(cs) - 2].verb = "GET" /\ cs[Len(cs) - 2].status = "200"
    /\ cs[Len(cs) - 1].verb = "GET_TEMPLATE" /\ cs[Len(cs) - 1].status = "200"
    /\ cs[Len(cs)].verb = "GET_TEMPLATE" /\ cs[Len(cs)].status = "200"

\* C26: within an operation on an integration action the attributes of the
\* state change only in the step that got the success template, after the
\* GET of the action and both template GETs succeeded; a step whose GET
\* failed leaves every attribute as it was; and the request_template and
\* success_template in the state after the three GETs are the ones the
\* template endpoints hold.
C26_ReadWritesAfterThreeGets ==
    [][kind = "action" /\ op # "idle" /\ op' = op =>
          /\ d'.attrs # d.attrs =>
                pc = "get_successtemplate" /\ ThreeGetsSucceeded(calls')
          /\ /\ calls' # calls
             /\ calls'[Len(calls')].verb \in {"GET", "GET_TEMPLATE"}
             /\ calls'[Len(calls')].status # "200"
             => d'.attrs = d.attrs
          /\ pc = "get_successtemplate" /\ calls' # calls
                /\ calls'[Len(calls')].status = "200" =>
                /\ ThreeGetsSucceeded(calls')
                /\ Len(d'.attrs.config_request) = 1
                /\ d'.attrs.config_request[1].request_template
                      = TemplateOf(srv, "requesttemplate.vm")
                /\ Len(d'.attrs.config_response) = 1
                /\ d'.attrs.config_response[1].success_template
                      = TemplateOf(srv, "successtemplate.vm")]_vars

\* The read after a create wrote the templates of the template endpoints
\* into a state that declared none.
C26_Witness ==
    /\ kind = "action" /\ Finished("create") /\ result = Ok
    /\ ThreeGetsSucceeded(calls)
    /\ inp.config.config_request[1].request_template = ""
    /\ d.attrs.config_request[1].request_template = TemplateOf(srv, "requesttemplate.vm")
    /\ d.attrs # inp.config

\* C27: after a successful updatePhone the phone the server holds has the
\* declared name and the declared state.
C27_UpdatedPhoneAgrees ==
    kind = "phone" /\ Finished("update") /\ result = Ok /\ d.id # "" =>
        /\ srv.body.Name = Some(inp.config.name)
        /\ srv.state = inp.config.state

\* The lines built are the ones the configuration declares.
LinesAsDeclared ==
    LET lines == Deref(calc.lines)
        a == calc.line_addresses
    IN  /\ calc.isStandAlone <=> a # <<>>
        /\ a # <<>> =>
              /\ Len(lines) = Len(a)
              /\ \A i \in DOMAIN lines :
                    /\ ~IsNil(lines[i].Properties)
                    /\ jsonValue(Deref(lines[i].Properties)["station_identity_address"])
                          = GoMap("value" :> GoMap("instance" :> GoString(a[i])))
              /\ \A i, j \in DOMAIN lines :
                    lines[i].Name = lines[j].Name => i = j
        /\ a = <<>> => Len(lines) = 1 /\ IsNil(lines[1].Properties)

\* C28: buildSdkLines marks the phone standalone exactly when line_addresses
\* is non-empty; it then builds one line per address, in the configured
\* order and with pairwise distinct names, and otherwise exactly one line
\* without an address; and for every list of one or more addresses,
\* flattenPhoneLines applied to the lines built returns the configured list
\* in the same order.
C28_LinesRoundTrip ==
    /\ calc.stage = "built" => LinesAsDeclared
    /\ calc.stage = "flat" /\ calc.via = "built" /\ calc.line_addresses # <<>> =>
          calc.out = Returned(calc.line_addresses)

\* C29: for every non-empty set of certificates, the update followed by the
\* read against a server that stores what it is sent yields the same set; a
\* single certificate is sent in the Certificate field alone, several in the
\* Certificates field alone.
C29_CertificatesRoundTrip ==
    calc.stage \in {"put", "read"} /\ calc.certificates # {} =>
        /\ Cardinality(calc.certificates) = 1 =>
              /\ ~IsNil(calc.stored.Certificate)
              /\ calc.certificates = {Deref(calc.stored.Certificate)}
              /\ IsNil(calc.stored.Certificates)
        /\ Cardinality(calc.certificates) > 1 =>
              /\ IsNil(calc.stored.Certificate)
              /\ ~IsNil(calc.stored.Certificates)
              /\ stringListToSet(Deref(calc.stored.Certificates)) = calc.certificates
              /\ Len(Deref(calc.stored.Certificates)) = Cardinality(calc.certificates)
        /\ calc.stage = "read" => calc.out = calc.certificates

\* A single certificate was read back from a server that held a list before.
C29_Witness ==
    /\ calc.stage = "read"
    /\ Cardinality(calc.certificates) = 1
    /\ ~IsNil(calc.before.Certificates)
    /\ calc.out = calc.certificates
    /\ calc.out # stringListToSet(Deref(calc.before.Certificates))

\* C30: updateCredential sends a PUT exactly when name, credential_type_name
\* or fields changed, and sends it first; when none of them changed every
\* request of the operation is the GET of the read-back and no step of the
\* operation changes the server's credential.
C30_PutIffChanged ==
    [][kind = "credential" /\ op = "update" /\ calls' # calls /\ op' = op =>
          LET sent == calls'[Len(calls')]
              touched == inp.changedKeys \cap {"name", "credential_type_name", "fields"} # {}
          IN  /\ Len(calls') = Len(calls) + 1
              /\ sent.verb = "PUT" => touched /\ calls = <<>>
              /\ touched /\ calls = <<>> => sent.verb = "PUT"
              /\ ~touched => sent.verb = "GET" /\ srv' = srv]_vars

\* An update with nothing changed has returned success after the read-back
\* alone.
C30_Witness ==
    /\ kind = "credential"
    /\ op = "update"
    /\ pc = "done"
    /\ result = Ok
    /\ inp.changedKeys = {}
    /\ calls # <<>>
    /\ \A i \in DOMAIN calls : calls[i].verb = "GET"
    /\ srv.life = "live"

=========================================================================
